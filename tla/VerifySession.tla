--------------------------- MODULE VerifySession ---------------------------
(***************************************************************************)
(* Test servers of parallel worker processes: the spawned production server *)
(* of src/lib/verify/server-lifecycle.ts and the in-process static server   *)
(* of static-export-http-server.ts, over the ports of http-harness.ts.     *)
(*                                                                         *)
(* A session reserves a port by binding it, gives it up, lets its server    *)
(* bind it and then asks whoever answers on it whether it is ready.  In     *)
(* between the port belongs to nobody.  Callers may run all of this under   *)
(* the listen-port lock, here the promise of that lock, Serializer, which   *)
(* ListenPortLock is shown to keep.                                        *)
(***************************************************************************)
EXTENDS Naturals

CONSTANTS
  Worker,        \* worker processes, one session at a time each
  Spawning,      \* those that spawn a production server; the others listen
  Serialized,    \* those that run the start of a session under the lock
  MaxPort,       \* ports 1..MaxPort stand for 3100..3999
  Free,          \* nobody has bound the port
  Foreign,       \* a program that is not one of the workers has bound it
  MaxAttempts,   \* VERIFY_SERVER_SESSION_MAX_SPAWN_ATTEMPTS and its like
  MaxSessions,   \* sessions a worker asks for
  MaxForeign     \* times a foreign program binds a port

ASSUME SessionAssumption ==
  /\ Spawning \subseteq Worker
  /\ Serialized \subseteq Worker /\ Worker \ Spawning \subseteq Serialized
  /\ MaxPort \in Nat \ {0} /\ MaxAttempts \in Nat \ {0}
  /\ MaxSessions \in Nat \ {0} /\ MaxForeign \in Nat
  /\ Free \notin Worker /\ Foreign \notin Worker /\ Free # Foreign

VARIABLES
  phase, lapsed,   \* the listen-port lock, see Serializer
  stage,           \* stage[w]: where w is in its session
  port,            \* port[w]: the port w tries, reserves or serves
  attempt,         \* attempt[w]: attempts of this session
  sessions,        \* sessions[w]: sessions w has asked for
  child,           \* child[w]: the child of this attempt
  spawned,         \* spawned[w]: children w has spawned
  cleaned,         \* cleaned[w]: cleanedUp of this attempt
  exiting,         \* workers whose signal handler will exit the process
  bound,           \* bound[p]: who has bound port p
  foreigners,      \* times a foreign program has bound a port
  fooled           \* history: workers whose ready answer was a stranger's

lockVars == <<phase, lapsed>>
progress == <<stage, port, attempt, sessions>>
childVars == <<child, spawned, cleaned>>
portVars == <<bound, foreigners>>
vars == <<lockVars, progress, childVars, exiting, portVars, fooled>>

Lock == INSTANCE Serializer

Port == 1..MaxPort

Stage == {"idle", "asking", "scan", "reserved", "released", "starting",
          "killing", "waitPort", "ready", "closing", "waitClosed",
          "failed", "closed", "gone", "cutShort"}

\* The process has exited, "cutShort" before it had killed its child.
Ended == {"gone", "cutShort"}

Killing == {"killing", "closing"}

Alive == {"booting", "listening"}

Child == Alive \cup {"none", "inUse", "exited"}

TypeOK ==
  /\ Lock!TypeOK
  /\ stage \in [Worker -> Stage]
  /\ port \in [Worker -> 1..MaxPort + 1]
  /\ attempt \in [Worker -> 0..MaxAttempts]
  /\ sessions \in [Worker -> 0..MaxSessions]
  /\ child \in [Worker -> Child]
  /\ spawned \in [Worker -> 0..MaxSessions * MaxAttempts]
  /\ cleaned \in [Worker -> BOOLEAN]
  /\ exiting \subseteq Worker
  /\ bound \in [Port -> Worker \cup {Free, Foreign}]
  /\ foreigners \in 0..MaxForeign
  /\ fooled \subseteq Worker

Init ==
  /\ Lock!Init
  /\ stage = [w \in Worker |-> "idle"]
  /\ port = [w \in Worker |-> 1]
  /\ attempt = [w \in Worker |-> 0]
  /\ sessions = [w \in Worker |-> 0]
  /\ child = [w \in Worker |-> "none"]
  /\ spawned = [w \in Worker |-> 0]
  /\ cleaned = [w \in Worker |-> FALSE]
  /\ exiting = {}
  /\ bound = [p \in Port |-> Free]
  /\ foreigners = 0
  /\ fooled = {}

Reach(w, s) == stage' = [stage EXCEPT ![w] = s]

Bind(p, owner) == bound' = [bound EXCEPT ![p] = owner]

-----------------------------------------------------------------------------
(* Asking for a session, and the lock around its start.                     *)

Request(w) ==
  /\ stage[w] \in {"idle", "failed", "closed"} /\ phase[w] = "out"
  /\ w \notin exiting
  /\ sessions[w] < MaxSessions
  /\ sessions' = [sessions EXCEPT ![w] = @ + 1]
  /\ attempt' = [attempt EXCEPT ![w] = 1]
  /\ port' = [port EXCEPT ![w] = 1]
  /\ child' = [child EXCEPT ![w] = "none"]
  /\ IF w \in Serialized
     THEN Lock!Ask(w) /\ Reach(w, "asking")
     ELSE UNCHANGED lockVars /\ Reach(w, "scan")
  /\ UNCHANGED <<spawned, cleaned, exiting, portVars, fooled>>

EnterLock(w) ==
  /\ stage[w] = "asking"
  /\ Lock!Enter(w)
  /\ Reach(w, "scan")
  /\ UNCHANGED <<port, attempt, sessions, childVars, exiting, portVars, fooled>>

\* Mutant: only a start that succeeds gives the lock back.
LeaveLockReady(w) ==
  /\ stage[w] = "ready"
  /\ Lock!Leave(w)
  /\ UNCHANGED <<progress, childVars, exiting, portVars, fooled>>

\* The start has settled, one way or the other.
LeaveLock(w) ==
  /\ stage[w] \in {"ready", "failed"}
  /\ Lock!Leave(w)
  /\ UNCHANGED <<progress, childVars, exiting, portVars, fooled>>

\* The holder's file grows older than the stale age.
LockLapses ==
  /\ ~lapsed
  /\ Lock!Outstay
  /\ UNCHANGED <<progress, childVars, exiting, portVars, fooled>>

-----------------------------------------------------------------------------
(* reserveListenPort, and the reservation given up.                         *)

TryPort(w) ==
  /\ stage[w] = "scan"
  /\ IF port[w] > MaxPort
     THEN Reach(w, "failed") /\ UNCHANGED <<port, bound>>
     ELSE IF bound[port[w]] = Free
     THEN Reach(w, "reserved") /\ Bind(port[w], w) /\ UNCHANGED port
     ELSE port' = [port EXCEPT ![w] = @ + 1] /\ UNCHANGED <<stage, bound>>
  /\ UNCHANGED <<lockVars, attempt, sessions, childVars, exiting, foreigners,
                 fooled>>

\* Mutant: the lock covers the reservation only.
ReleasePortAndLock(w) ==
  /\ stage[w] = "reserved"
  /\ Reach(w, "released")
  /\ Bind(port[w], Free)
  /\ IF phase[w] = "in" THEN Lock!Leave(w) ELSE UNCHANGED lockVars
  /\ UNCHANGED <<port, attempt, sessions, childVars, exiting, foreigners,
                 fooled>>

ReleasePort(w) ==
  /\ stage[w] = "reserved"
  /\ Reach(w, "released")
  /\ Bind(port[w], Free)
  /\ UNCHANGED <<lockVars, port, attempt, sessions, childVars, exiting,
                 foreigners, fooled>>

\* A fresh attempt scans again from the first port.
Retry(w) ==
  /\ attempt' = [attempt EXCEPT ![w] = @ + 1]
  /\ port' = [port EXCEPT ![w] = 1]
  /\ Reach(w, "scan")

-----------------------------------------------------------------------------
(* The static server listens itself and retries a port that was taken.      *)

\* Mutant: a taken port is retried without end.
ListenForever(w) ==
  /\ w \notin Spawning
  /\ stage[w] = "released"
  /\ IF bound[port[w]] = Free
     THEN /\ Bind(port[w], w) /\ Reach(w, "ready")
          /\ UNCHANGED <<port, attempt>>
     ELSE Retry(w) /\ UNCHANGED bound
  /\ UNCHANGED <<lockVars, sessions, childVars, exiting, foreigners, fooled>>

Listen(w) ==
  /\ w \notin Spawning
  /\ stage[w] = "released"
  /\ IF bound[port[w]] = Free
     THEN /\ Bind(port[w], w) /\ Reach(w, "ready")
          /\ UNCHANGED <<port, attempt>>
     ELSE /\ IF attempt[w] < MaxAttempts
             THEN Retry(w)
             ELSE Reach(w, "failed") /\ UNCHANGED <<port, attempt>>
          /\ UNCHANGED bound
  /\ UNCHANGED <<lockVars, sessions, childVars, exiting, foreigners, fooled>>

\* Mutant: the session ends without closing its server.
CloseStaticLeaky(w) ==
  /\ w \notin Spawning
  /\ stage[w] = "ready" /\ phase[w] = "out"
  /\ Reach(w, "closed")
  /\ UNCHANGED <<lockVars, port, attempt, sessions, childVars, exiting,
                 portVars, fooled>>

CloseStatic(w) ==
  /\ w \notin Spawning
  /\ stage[w] = "ready" /\ phase[w] = "out"
  /\ Bind(port[w], Free)
  /\ Reach(w, "closed")
  /\ UNCHANGED <<lockVars, port, attempt, sessions, childVars, exiting,
                 foreigners, fooled>>

-----------------------------------------------------------------------------
(* The production server is a child process.                                *)

\* The first spawn of a process also registers its signal handlers.
Spawn(w) ==
  /\ w \in Spawning
  /\ stage[w] = "released"
  /\ child' = [child EXCEPT ![w] = "booting"]
  /\ spawned' = [spawned EXCEPT ![w] = @ + 1]
  /\ cleaned' = [cleaned EXCEPT ![w] = FALSE]
  /\ Reach(w, "starting")
  /\ UNCHANGED <<lockVars, port, attempt, sessions, exiting, portVars, fooled>>

ChildListens(w) ==
  /\ child[w] = "booting"
  /\ IF bound[port[w]] = Free
     THEN child' = [child EXCEPT ![w] = "listening"] /\ Bind(port[w], w)
     ELSE child' = [child EXCEPT ![w] = "inUse"] /\ UNCHANGED bound
  /\ UNCHANGED <<lockVars, progress, spawned, cleaned, exiting, foreigners,
                 fooled>>

\* The child is gone, and with it its hold on the port.
Bury(w) ==
  /\ child' = [child EXCEPT ![w] = IF @ \in Alive THEN "exited" ELSE @]
  /\ IF child[w] = "listening" THEN Bind(port[w], Free) ELSE UNCHANGED bound

ChildExits(w) ==
  /\ child[w] \in Alive
  /\ Bury(w)
  /\ UNCHANGED <<lockVars, progress, spawned, cleaned, exiting, foreigners,
                 fooled>>

\* Somebody answers on port p: the server of w, of another worker, or foreign.
Answers(p, by) ==
  /\ bound[p] = by
  /\ \/ by = Foreign
     \/ by \in Spawning /\ child[by] = "listening" /\ port[by] = p
     \/ by \in Worker \ Spawning /\ stage[by] = "ready" /\ port[by] = p

Ready(w) ==
  /\ stage[w] = "starting"
  /\ \E by \in Worker \cup {Foreign} :
       /\ Answers(port[w], by)
       /\ fooled' = IF by = w THEN fooled ELSE fooled \cup {w}
  /\ Reach(w, "ready")
  /\ UNCHANGED <<lockVars, port, attempt, sessions, childVars, exiting, portVars>>

\* A start whose child lost its port is tried again, any other fails.
EndStart(w) ==
  IF child[w] = "inUse" /\ attempt[w] < MaxAttempts
  THEN Retry(w)
  ELSE Reach(w, "failed") /\ UNCHANGED <<port, attempt>>

\* The exit of the child or the startup timeout ends the race; cleanup() does
\* nothing if the signal handler has called it already.
StartFails(w) ==
  /\ stage[w] = "starting"
  /\ cleaned' = [cleaned EXCEPT ![w] = TRUE]
  /\ IF cleaned[w]
     THEN EndStart(w)
     ELSE Reach(w, "killing") /\ UNCHANGED <<port, attempt>>
  /\ UNCHANGED <<lockVars, sessions, child, spawned, exiting, portVars, fooled>>

Close(w) ==
  /\ w \in Spawning
  /\ stage[w] = "ready" /\ phase[w] = "out"
  /\ cleaned' = [cleaned EXCEPT ![w] = TRUE]
  /\ Reach(w, IF cleaned[w] THEN "closed" ELSE "closing")
  /\ UNCHANGED <<lockVars, port, attempt, sessions, child, spawned, exiting,
                 portVars, fooled>>

\* Mutant: no SIGKILL for a child that ignores SIGTERM.
KillPolitely(w) ==
  /\ stage[w] \in Killing
  /\ Bury(w) \/ UNCHANGED <<child, bound>>
  /\ Reach(w, IF stage[w] = "killing" THEN "waitPort" ELSE "waitClosed")
  /\ UNCHANGED <<lockVars, port, attempt, sessions, spawned, cleaned, exiting,
                 foreigners, fooled>>

\* killManagedChild: SIGTERM to the process group the child was given, then
\* SIGKILL, which ends any child.
Kill(w) ==
  /\ stage[w] \in Killing
  /\ Bury(w)
  /\ Reach(w, IF stage[w] = "killing" THEN "waitPort" ELSE "waitClosed")
  /\ UNCHANGED <<lockVars, port, attempt, sessions, spawned, cleaned, exiting,
                 foreigners, fooled>>

\* waitForListenPortFree returns.
PortFree(w) ==
  /\ stage[w] \in {"waitPort", "waitClosed"}
  /\ bound[port[w]] = Free
  /\ IF stage[w] = "waitPort"
     THEN EndStart(w)
     ELSE Reach(w, "closed") /\ UNCHANGED <<port, attempt>>
  /\ UNCHANGED <<lockVars, sessions, childVars, exiting, portVars, fooled>>

\* waitForListenPortFree throws: whoever has the port, the cleanup fails.
PortStuck(w) ==
  /\ stage[w] \in {"waitPort", "waitClosed"}
  /\ bound[port[w]] # Free
  /\ Reach(w, IF stage[w] = "waitPort" THEN "failed" ELSE "closed")
  /\ UNCHANGED <<lockVars, port, attempt, sessions, childVars, exiting, portVars,
                 fooled>>

-----------------------------------------------------------------------------
(* Signals, exits and foreign programs.                                     *)

\* The handler that the first spawn registered calls that spawn's cleanup, and
\* exits when it is over.
Signal(w) ==
  /\ w \in Spawning \ exiting
  /\ stage[w] \notin Ended /\ spawned[w] > 0
  /\ exiting' = exiting \cup {w}
  /\ IF spawned[w] = 1 /\ ~cleaned[w]
     THEN cleaned' = [cleaned EXCEPT ![w] = TRUE] /\ Bury(w)
     ELSE UNCHANGED <<child, cleaned, bound>>
  /\ UNCHANGED <<lockVars, progress, spawned, foreigners, fooled>>

\* The process exits, at once if it has no handler yet: its reservation goes,
\* its child stays.
Exit(w) ==
  /\ w \in exiting \/ (w \in Spawning /\ spawned[w] = 0)
  /\ stage[w] \notin Ended
  /\ Reach(w, IF stage[w] \in Killing THEN "cutShort" ELSE "gone")
  /\ IF stage[w] = "reserved" THEN Bind(port[w], Free) ELSE UNCHANGED bound
  /\ IF phase[w] = "out" THEN UNCHANGED lockVars ELSE Lock!Die(w)
  /\ UNCHANGED <<port, attempt, sessions, childVars, exiting, foreigners, fooled>>

ForeignBinds(p) ==
  /\ foreigners < MaxForeign
  /\ bound[p] = Free
  /\ Bind(p, Foreign)
  /\ foreigners' = foreigners + 1
  /\ UNCHANGED <<lockVars, progress, childVars, exiting, fooled>>

ForeignLeaves(p) ==
  /\ bound[p] = Foreign
  /\ Bind(p, Free)
  /\ UNCHANGED <<lockVars, progress, childVars, exiting, foreigners, fooled>>

-----------------------------------------------------------------------------

\* What the worker does by itself once it has asked for a session.
Start(w) ==
  \/ EnterLock(w) \/ TryPort(w) \/ ReleasePort(w) \/ Listen(w) \/ Spawn(w)
  \/ Ready(w) \/ StartFails(w) \/ Kill(w) \/ PortFree(w) \/ PortStuck(w)

Step(w) ==
  \/ Request(w) \/ Start(w) \/ LeaveLock(w) \/ CloseStatic(w) \/ Close(w)
  \/ ChildListens(w) \/ ChildExits(w) \/ Signal(w) \/ Exit(w)

Next ==
  \/ LockLapses
  \/ \E w \in Worker : Step(w)
  \/ \E p \in Port : ForeignBinds(p) \/ ForeignLeaves(p)

Spec == Init /\ [][Next]_vars

\* Timers fire and system calls return: a start goes on, and settles.
Fairness ==
  \A w \in Worker : WF_vars(Start(w)) /\ WF_vars(LeaveLock(w))

FairSpec == Spec /\ Fairness

-----------------------------------------------------------------------------

\* "cleanup ... always stops a spawned child server": when a session has failed
\* or was closed its child is gone, and so it is when a signal ended a process
\* that had spawned no other one before and was not just killing it.
ServerStopped ==
  \A w \in Spawning :
    \/ stage[w] \in {"failed", "closed"}
    \/ stage[w] = "gone" /\ spawned[w] = 1
    => child[w] \notin Alive

\* As long as the lock holds and nobody was answered by a stranger before, a
\* serialized session that becomes ready is not answered by the server of
\* another serialized session that is starting or ready.
NotFooledByPeer ==
  [][\A v, w \in Serialized :
       /\ v # w /\ stage[v] \in {"starting", "ready"}
       /\ stage[w] # "ready" /\ stage'[w] = "ready"
       /\ ~lapsed /\ fooled = {}
       => bound'[port[w]] # v]_vars

\* The start of a session, and its end, leave nothing of it behind on a port:
\* whatever a worker has bound serves its current session.
PortsAccountedFor ==
  \A p \in Port : \A w \in Worker :
    bound[p] = w =>
      /\ port[w] = p
      /\ \/ stage[w] \in {"reserved", "ready"}
         \/ child[w] = "listening"

\* Whoever asks for a session learns whether it has one, or ends by a signal:
\* no failure of another worker keeps it waiting for the lock for ever.
StartSettles ==
  \A w \in Worker :
    stage[w] = "asking" ~> stage[w] \in {"ready", "failed", "closed"} \cup Ended
=============================================================================
