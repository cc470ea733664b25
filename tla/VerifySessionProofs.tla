------------------------ MODULE VerifySessionProofs ------------------------
(***************************************************************************)
(* Server sessions for all constants: type correctness, that a session that  *)
(* is over has stopped its server, that a bound port is of a running         *)
(* session, and that serialized sessions do not take each other's server     *)
(* for their own.                                                          *)
(***************************************************************************)
EXTENDS VerifySession, Integers, TLAPS

\* The types, but for the bound on the spawns, which Budget gives.
Typing ==
  /\ Lock!TypeOK
  /\ stage \in [Worker -> Stage] /\ port \in [Worker -> 1..MaxPort + 1]
  /\ attempt \in [Worker -> 0..MaxAttempts]
  /\ sessions \in [Worker -> 0..MaxSessions]
  /\ child \in [Worker -> Child] /\ spawned \in [Worker -> Nat]
  /\ cleaned \in [Worker -> BOOLEAN] /\ exiting \subseteq Worker
  /\ bound \in [Port -> Worker \cup {Free, Foreign}]
  /\ foreigners \in 0..MaxForeign /\ fooled \subseteq Worker

\* A step of w leaves the others as they are.
Others(w) ==
  \A q \in Worker \ {w} :
    /\ stage'[q] = stage[q] /\ port'[q] = port[q] /\ attempt'[q] = attempt[q]
    /\ sessions'[q] = sessions[q] /\ child'[q] = child[q]
    /\ spawned'[q] = spawned[q] /\ cleaned'[q] = cleaned[q]
    /\ phase'[q] = phase[q] /\ (q \in exiting' <=> q \in exiting)

LEMMA StepTyped ==
  ASSUME Typing, NEW w \in Worker, Step(w)
  PROVE  Typing'
<1> USE SessionAssumption DEF Typing, Lock!TypeOK, Lock!Phase, Stage, Child, Alive, lockVars, progress,
        childVars, portVars, Reach, Bind
<1>1. CASE Request(w)
  BY <1>1 DEF Request, Lock!Ask, Lock!Become
<1>2. CASE EnterLock(w)
  BY <1>2 DEF EnterLock, Lock!Enter, Lock!Become
<1>3. CASE LeaveLock(w)
  BY <1>3 DEF LeaveLock, Lock!Leave, Lock!Become
<1>4. CASE TryPort(w)
  BY <1>4 DEF TryPort
<1>5. CASE ReleasePort(w)
  BY <1>5 DEF ReleasePort
<1>6. CASE Listen(w)
  BY <1>6 DEF Listen, Retry
<1>7. CASE CloseStatic(w)
  BY <1>7 DEF CloseStatic
<1>8. CASE Spawn(w)
  BY <1>8 DEF Spawn
<1>9. CASE ChildListens(w)
  BY <1>9 DEF ChildListens
<1>10. CASE ChildExits(w)
  BY <1>10 DEF ChildExits, Bury
<1>11. CASE Ready(w)
  BY <1>11 DEF Ready
<1>12. CASE StartFails(w)
  BY <1>12 DEF StartFails, EndStart, Retry
<1>13. CASE Close(w)
  BY <1>13 DEF Close
<1>14. CASE Kill(w)
  BY <1>14 DEF Kill, Bury, Killing
<1>15. CASE PortFree(w)
  BY <1>15 DEF PortFree, EndStart, Retry
<1>16. CASE PortStuck(w)
  BY <1>16 DEF PortStuck
<1>17. CASE Signal(w)
  BY ZenonT(60), <1>17 DEF Signal, Bury
<1>18. CASE Exit(w)
  BY <1>18 DEF Exit, Ended, Lock!Die, Lock!Become
<1> QED
  BY <1>1, <1>2, <1>3, <1>4, <1>5, <1>6, <1>7, <1>8, <1>9, <1>10, <1>11, <1>12, <1>13, <1>14, <1>15, <1>16, <1>17, <1>18
  DEF Step, Start

LEMMA StepOthers ==
  ASSUME Typing, NEW w \in Worker, Step(w)
  PROVE  Others(w)
<1> USE DEF Typing, Lock!TypeOK, Others, lockVars, progress, childVars, portVars, Reach
<1>1. CASE Request(w)
  BY <1>1 DEF Request, Lock!Ask, Lock!Become
<1>2. CASE EnterLock(w)
  BY <1>2 DEF EnterLock, Lock!Enter, Lock!Become
<1>3. CASE LeaveLock(w)
  BY <1>3 DEF LeaveLock, Lock!Leave, Lock!Become
<1>4. CASE TryPort(w)
  BY <1>4 DEF TryPort
<1>5. CASE ReleasePort(w)
  BY <1>5 DEF ReleasePort
<1>6. CASE Listen(w)
  BY <1>6 DEF Listen, Retry
<1>7. CASE CloseStatic(w)
  BY <1>7 DEF CloseStatic
<1>8. CASE Spawn(w)
  BY <1>8 DEF Spawn
<1>9. CASE ChildListens(w)
  BY <1>9 DEF ChildListens
<1>10. CASE ChildExits(w)
  BY <1>10 DEF ChildExits, Bury
<1>11. CASE Ready(w)
  BY <1>11 DEF Ready
<1>12. CASE StartFails(w)
  BY <1>12 DEF StartFails, EndStart, Retry
<1>13. CASE Close(w)
  BY <1>13 DEF Close
<1>14. CASE Kill(w)
  BY <1>14 DEF Kill, Bury, Killing
<1>15. CASE PortFree(w)
  BY <1>15 DEF PortFree, EndStart, Retry
<1>16. CASE PortStuck(w)
  BY <1>16 DEF PortStuck
<1>17. CASE Signal(w)
  BY <1>17 DEF Signal, Bury
<1>18. CASE Exit(w)
  BY <1>18 DEF Exit, Ended, Lock!Die, Lock!Become
<1> QED
  BY <1>1, <1>2, <1>3, <1>4, <1>5, <1>6, <1>7, <1>8, <1>9, <1>10, <1>11, <1>12, <1>13, <1>14, <1>15, <1>16, <1>17, <1>18
  DEF Step, Start

-----------------------------------------------------------------------------

\* Stages with a port of its own, and those of the manager of a child.
Holding == {"reserved", "released", "starting", "killing", "waitPort", "ready",
            "closing", "waitClosed"}
Managing == {"starting", "killing", "waitPort", "closing", "waitClosed"}

\* A child lives from its spawn until it is killed.  The cleanup of a start is
\* called once, so whoever waits for an answer after it has no child any more.
Local(w) ==
  /\ stage[w] \in Holding => port[w] \in Port
  /\ stage[w] \in Managing => w \in Spawning
  /\ child[w] \in Alive =>
       /\ w \in Spawning /\ port[w] \in Port /\ spawned[w] > 0
       /\ stage[w] \in {"starting", "killing", "ready", "closing"} \cup Ended
  /\ cleaned[w] /\ stage[w] \in {"starting", "ready"} => child[w] \notin Alive
  /\ w \in exiting => /\ w \in Spawning /\ spawned[w] > 0
                      /\ spawned[w] = 1 => cleaned[w]
  /\ stage[w] = "gone" /\ spawned[w] = 1 => child[w] \notin Alive

\* Where the lock has let w, if it uses the lock.
Inside == {"scan", "reserved", "released", "starting", "killing", "waitPort"}

Link(w) ==
  /\ stage[w] = "asking" <=> phase[w] = "waiting"
  /\ w \in Serialized /\ stage[w] \in Inside => phase[w] = "in"

\* Spawns in s sessions asked for, the last of them at attempt n.
Budget(s, n) == (s - 1) * MaxAttempts + n

Spawns(w) ==
  /\ sessions[w] = 0 => spawned[w] = 0 /\ stage[w] \in {"idle", "gone"}
  /\ sessions[w] > 0 => spawned[w] <= Budget(sessions[w], attempt[w])
  /\ stage[w] \in {"asking", "scan", "reserved", "released"} =>
       spawned[w] < Budget(sessions[w], attempt[w])

LEMMA LocalKept ==
  ASSUME NEW w \in Worker, Typing, Typing', Local(w), Step(w)
  PROVE  Local(w)'
<1> USE SessionAssumption DEF Typing, Local, Holding, Managing, Port, Stage, Child, Alive, Ended,
        lockVars, progress, childVars, portVars, Reach
<1>1. CASE Request(w)
  BY <1>1 DEF Request
<1>2. CASE EnterLock(w)
  BY <1>2 DEF EnterLock
<1>3. CASE LeaveLock(w)
  BY <1>3 DEF LeaveLock
<1>4. CASE TryPort(w)
  BY <1>4 DEF TryPort
<1>5. CASE ReleasePort(w)
  BY <1>5 DEF ReleasePort
<1>6. CASE Listen(w)
  BY <1>6 DEF Listen, Retry
<1>7. CASE CloseStatic(w)
  BY <1>7 DEF CloseStatic
<1>8. CASE Spawn(w)
  BY <1>8 DEF Spawn
<1>9. CASE ChildListens(w)
  BY <1>9 DEF ChildListens
<1>10. CASE ChildExits(w)
  BY <1>10 DEF ChildExits, Bury
<1>11. CASE Ready(w)
  BY <1>11 DEF Ready
<1>12. CASE StartFails(w)
  BY <1>12 DEF StartFails, EndStart, Retry
<1>13. CASE Close(w)
  BY <1>13 DEF Close
<1>14. CASE Kill(w)
  BY <1>14 DEF Kill, Bury, Killing
<1>15. CASE PortFree(w)
  BY <1>15 DEF PortFree, EndStart, Retry
<1>16. CASE PortStuck(w)
  BY <1>16 DEF PortStuck
<1>17. CASE Signal(w)
  BY <1>17 DEF Signal, Bury
<1>18. CASE Exit(w)
  BY <1>18 DEF Exit, Killing
<1> QED
  BY <1>1, <1>2, <1>3, <1>4, <1>5, <1>6, <1>7, <1>8, <1>9, <1>10, <1>11, <1>12, <1>13, <1>14, <1>15, <1>16, <1>17, <1>18
  DEF Step, Start

LEMMA LinkKept ==
  ASSUME NEW w \in Worker, Typing, Typing', Local(w), Link(w), Step(w)
  PROVE  Link(w)'
<1> USE DEF Typing, Lock!TypeOK, Lock!Phase, Link, Inside, Local, Managing, Stage, lockVars, progress, Reach
<1>1. CASE Request(w)
  BY <1>1 DEF Request, Lock!Ask, Lock!Become
<1>2. CASE EnterLock(w)
  BY <1>2 DEF EnterLock, Lock!Enter, Lock!Become
<1>3. CASE LeaveLock(w)
  BY <1>3 DEF LeaveLock, Lock!Leave, Lock!Become
<1>4. CASE TryPort(w)
  BY <1>4 DEF TryPort
<1>5. CASE ReleasePort(w)
  BY <1>5 DEF ReleasePort
<1>6. CASE Listen(w)
  BY <1>6 DEF Listen, Retry
<1>7. CASE CloseStatic(w)
  BY <1>7 DEF CloseStatic
<1>8. CASE Spawn(w)
  BY <1>8 DEF Spawn
<1>9. CASE ChildListens(w)
  BY <1>9 DEF ChildListens
<1>10. CASE ChildExits(w)
  BY <1>10 DEF ChildExits
<1>11. CASE Ready(w)
  BY <1>11 DEF Ready
<1>12. CASE StartFails(w)
  BY <1>12 DEF StartFails, EndStart, Retry
<1>13. CASE Close(w)
  BY <1>13 DEF Close
<1>14. CASE Kill(w)
  BY <1>14 DEF Kill, Killing
<1>15. CASE PortFree(w)
  BY <1>15 DEF PortFree, EndStart, Retry
<1>16. CASE PortStuck(w)
  BY <1>16 DEF PortStuck
<1>17. CASE Signal(w)
  BY <1>17 DEF Signal
<1>18. CASE Exit(w)
  BY <1>18 DEF Exit, Ended, Lock!Die, Lock!Become
<1> QED
  BY <1>1, <1>2, <1>3, <1>4, <1>5, <1>6, <1>7, <1>8, <1>9, <1>10, <1>11, <1>12, <1>13, <1>14, <1>15, <1>16, <1>17, <1>18
  DEF Step, Start

\* The arithmetic of the budget: one spawn more per attempt, and all the
\* attempts of a session when the next one begins.
LEMMA BudgetIs ==
  /\ \A s \in 1..MaxSessions, n \in 0..MaxAttempts :
       /\ Budget(s, n) \in Int /\ Budget(s, n + 1) = Budget(s, n) + 1
       /\ Budget(s, n) < Budget(s + 1, 1)
       /\ Budget(s, n) <= MaxSessions * MaxAttempts
  /\ Budget(1, 1) = 1
<1> USE SessionAssumption DEF Budget
<1>1. ASSUME NEW s \in 1..MaxSessions, NEW n \in 0..MaxAttempts
      PROVE  /\ Budget(s, n) \in Int /\ Budget(s, n + 1) = Budget(s, n) + 1
             /\ Budget(s, n) < Budget(s + 1, 1)
  <2>1. (s + 1 - 1) * MaxAttempts = (s - 1) * MaxAttempts + MaxAttempts
    OBVIOUS
  <2> QED
    BY <2>1
<1>2. ASSUME NEW s \in 1..MaxSessions, NEW n \in 0..MaxAttempts
      PROVE  Budget(s, n) <= MaxSessions * MaxAttempts
  <2>1. (s - 1) * MaxAttempts + MaxAttempts = s * MaxAttempts
    OBVIOUS
  <2>2. s * MaxAttempts <= MaxSessions * MaxAttempts
    OBVIOUS
  <2> QED
    BY <2>1, <2>2
<1> QED
  BY <1>1, <1>2

LEMMA SpawnsKept ==
  ASSUME NEW w \in Worker, Typing, Typing', Spawns(w), Step(w)
  PROVE  Spawns(w)'
<1>a. /\ sessions[w] \in 0..MaxSessions /\ attempt[w] \in 0..MaxAttempts
      /\ sessions'[w] \in 0..MaxSessions /\ attempt'[w] \in 0..MaxAttempts
      /\ spawned[w] \in Nat /\ spawned'[w] \in Nat
  BY DEF Typing
<1>b. /\ sessions[w] > 0 => /\ Budget(sessions[w], attempt[w]) \in Int
                           /\ Budget(sessions[w], attempt[w] + 1) =
                                Budget(sessions[w], attempt[w]) + 1
                           /\ Budget(sessions[w], attempt[w]) < Budget(sessions[w] + 1, 1)
      /\ Budget(1, 1) = 1 /\ Budget(sessions'[w], attempt'[w]) \in Int
  BY <1>a, BudgetIs, SessionAssumption DEF Budget
<1> USE <1>a, <1>b DEF Typing, Spawns, Stage, progress, childVars, Reach
<1>1. CASE Request(w)
  BY <1>1 DEF Request
<1>2. CASE EnterLock(w)
  BY <1>2 DEF EnterLock
<1>3. CASE LeaveLock(w)
  BY <1>3 DEF LeaveLock
<1>4. CASE TryPort(w)
  BY <1>4 DEF TryPort
<1>5. CASE ReleasePort(w)
  BY <1>5 DEF ReleasePort
<1>6. CASE Listen(w)
  BY <1>6 DEF Listen, Retry
<1>7. CASE CloseStatic(w)
  BY <1>7 DEF CloseStatic
<1>8. CASE Spawn(w)
  BY <1>8 DEF Spawn
<1>9. CASE ChildListens(w)
  BY <1>9 DEF ChildListens
<1>10. CASE ChildExits(w)
  BY <1>10 DEF ChildExits
<1>11. CASE Ready(w)
  BY <1>11 DEF Ready
<1>12. CASE StartFails(w)
  BY <1>12 DEF StartFails, EndStart, Retry
<1>13. CASE Close(w)
  BY <1>13 DEF Close
<1>14. CASE Kill(w)
  BY <1>14 DEF Kill, Killing
<1>15. CASE PortFree(w)
  BY <1>15 DEF PortFree, EndStart, Retry
<1>16. CASE PortStuck(w)
  BY <1>16 DEF PortStuck
<1>17. CASE Signal(w)
  BY <1>17 DEF Signal
<1>18. CASE Exit(w)
  BY <1>18 DEF Exit, Ended, Killing
<1> QED
  BY <1>1, <1>2, <1>3, <1>4, <1>5, <1>6, <1>7, <1>8, <1>9, <1>10, <1>11, <1>12, <1>13, <1>14, <1>15, <1>16, <1>17, <1>18
  DEF Step, Start

\* A bound port is of the session that reserves or serves it.
BoundInv ==
  \A p \in Port, w \in Worker :
    bound[p] = w =>
      /\ port[w] = p
      /\ \/ stage[w] = "reserved"
         \/ w \notin Spawning /\ stage[w] = "ready"
         \/ child[w] = "listening"

\* Until the promise of the lock lapses one worker at a time is in it.
LockInv == ~lapsed => \A v, w \in Worker : phase[v] = "in" /\ phase[w] = "in" => v = w

\* Until somebody is fooled a ready server is listening, so that it cannot take
\* the port of a later start, and a start has taken none of a ready server.
PeerInv ==
  ~lapsed /\ fooled = {} =>
    \A v \in Serialized :
      stage[v] = "ready" =>
        /\ child[v] # "booting"
        /\ \A w \in Serialized \ {v} :
             stage[w] \in {"reserved", "released", "starting"} => bound[port[w]] # v

LocalInv == \A w \in Worker : Local(w) /\ Link(w) /\ Spawns(w)

IInv == Typing /\ LocalInv /\ BoundInv /\ LockInv /\ PeerInv

LEMMA BoundKept ==
  ASSUME NEW w \in Worker, Typing, LocalInv, BoundInv, Others(w), Step(w)
  PROVE  BoundInv'
<1> SUFFICES ASSUME NEW p \in Port, NEW q \in Worker, bound'[p] = q
             PROVE  /\ port'[q] = p
                    /\ \/ stage'[q] = "reserved"
                       \/ q \notin Spawning /\ stage'[q] = "ready"
                       \/ child'[q] = "listening"
  BY DEF BoundInv
<1>a. /\ Local(w) /\ Local(q) /\ q # Free /\ q # Foreign
      /\ q # w => port'[q] = port[q] /\ stage'[q] = stage[q] /\ child'[q] = child[q]
      /\ bound[p] = q =>
           /\ port[q] = p
           /\ \/ stage[q] = "reserved"
              \/ q \notin Spawning /\ stage[q] = "ready"
              \/ child[q] = "listening"
  BY SessionAssumption DEF LocalInv, BoundInv, Others
<1> USE <1>a DEF Typing, Local, Holding, Managing, Stage, Child, Alive, Ended, progress,
        childVars, portVars, Reach, Bind
<1>1. CASE Request(w)
  BY <1>1 DEF Request
<1>2. CASE EnterLock(w)
  BY <1>2 DEF EnterLock
<1>3. CASE LeaveLock(w)
  BY <1>3 DEF LeaveLock
<1>4. CASE TryPort(w)
  BY <1>4 DEF TryPort
<1>5. CASE ReleasePort(w)
  BY <1>5 DEF ReleasePort
<1>6. CASE Listen(w)
  BY <1>6 DEF Listen, Retry
<1>7. CASE CloseStatic(w)
  BY <1>7 DEF CloseStatic
<1>8. CASE Spawn(w)
  BY <1>8 DEF Spawn
<1>9. CASE ChildListens(w)
  BY <1>9 DEF ChildListens
<1>10. CASE ChildExits(w)
  BY <1>10 DEF ChildExits, Bury
<1>11. CASE Ready(w)
  BY <1>11 DEF Ready
<1>12. CASE StartFails(w)
  BY <1>12 DEF StartFails, EndStart, Retry
<1>13. CASE Close(w)
  BY <1>13 DEF Close
<1>14. CASE Kill(w)
  BY <1>14 DEF Kill, Bury, Killing
<1>15. CASE PortFree(w)
  BY <1>15 DEF PortFree, EndStart, Retry
<1>16. CASE PortStuck(w)
  BY <1>16 DEF PortStuck
<1>17. CASE Signal(w)
  BY <1>17 DEF Signal, Bury
<1>18. CASE Exit(w)
  BY <1>18 DEF Exit, Killing
<1> QED
  BY <1>1, <1>2, <1>3, <1>4, <1>5, <1>6, <1>7, <1>8, <1>9, <1>10, <1>11, <1>12, <1>13, <1>14, <1>15, <1>16, <1>17, <1>18
  DEF Step, Start

LEMMA LockKept ==
  ASSUME NEW w \in Worker, Typing, LockInv, Others(w), Step(w)
  PROVE  LockInv'
<1>1. \/ UNCHANGED <<phase, lapsed>>
      \/ phase[w] # "in" /\ ~lapsed /\ ~lapsed' /\ \A v \in Worker : phase[v] # "in"
      \/ phase'[w] # "in" /\ (lapsed => lapsed')
      \/ lapsed'
  <2> USE DEF Typing, Lock!TypeOK, lockVars
  <2>1. CASE Request(w)
    BY <2>1 DEF Request, Lock!Ask, Lock!Become
  <2>2. CASE EnterLock(w)
    BY <2>2 DEF EnterLock, Lock!Enter, Lock!Become
  <2>3. CASE LeaveLock(w)
    BY <2>3 DEF LeaveLock, Lock!Leave, Lock!Become
  <2>4. CASE Exit(w)
    BY <2>4 DEF Exit, Lock!Die, Lock!Become
  <2>5. CASE ~(Request(w) \/ EnterLock(w) \/ LeaveLock(w) \/ Exit(w))
    BY <2>5 DEF Step, Start, TryPort, ReleasePort, Listen, CloseStatic, Spawn, ChildListens, ChildExits, Ready, StartFails,
       Close, Kill, PortFree, PortStuck, Signal
  <2> QED
    BY <2>1, <2>2, <2>3, <2>4, <2>5
<1> QED
  BY <1>1 DEF LockInv, Others

\* Neither a lapse nor a fooled worker is forgotten.
LEMMA HistoryKept ==
  ASSUME NEW w \in Worker, Typing, Step(w)
  PROVE  (lapsed => lapsed') /\ fooled \subseteq fooled'
<1> USE DEF lockVars
<1>1. CASE Exit(w)
  BY <1>1 DEF Exit, Lock!Die, Typing, Lock!TypeOK
<1>2. CASE Request(w) \/ EnterLock(w) \/ LeaveLock(w)
  BY <1>2 DEF Request, EnterLock, LeaveLock, Lock!Ask, Lock!Enter, Lock!Leave
<1>3. CASE ~(Exit(w) \/ Request(w) \/ EnterLock(w) \/ LeaveLock(w))
  BY <1>3 DEF Step, Start, TryPort, ReleasePort, Listen, CloseStatic, Spawn, ChildListens, ChildExits, Ready, StartFails,
     Close, Kill, PortFree, PortStuck, Signal
<1> QED
  BY <1>1, <1>2, <1>3

LEMMA PeerKept ==
  ASSUME NEW w \in Worker, Typing, LocalInv, LockInv, PeerInv, Others(w), Step(w)
  PROVE  PeerInv'
<1> SUFFICES ASSUME ~lapsed', fooled' = {}, NEW v \in Serialized, stage'[v] = "ready",
                    NEW q \in Serialized
             PROVE  /\ child'[v] # "booting"
                    /\ q # v /\ stage'[q] \in {"reserved", "released", "starting"} =>
                         bound'[port'[q]] # v
  BY DEF PeerInv
<1>a. /\ v \in Worker /\ q \in Worker /\ Local(v) /\ Local(w) /\ Link(v) /\ Link(q)
      /\ Local(q) /\ v # Free /\ v # Foreign /\ fooled = {}
  BY SessionAssumption, HistoryKept DEF LocalInv
<1>b. /\ stage[v] = "ready" => child[v] # "booting"
      /\ q # v /\ stage[v] = "ready" /\ stage[q] \in {"reserved", "released", "starting"} =>
           bound[port[q]] # v
  BY <1>a, HistoryKept DEF PeerInv
<1>c. /\ v # w => stage'[v] = stage[v] /\ child'[v] = child[v]
      /\ q # w => stage'[q] = stage[q] /\ port'[q] = port[q]
      /\ phase[v] = "in" /\ phase[q] = "in" => v = q
  BY <1>a, HistoryKept DEF Others, LockInv
<1> USE <1>a, <1>b, <1>c DEF Typing, Local, Link, Holding, Managing, Inside, Stage, Child, Alive,
        Ended, progress, childVars, portVars, Reach, Bind
<1>1. CASE Request(w)
  BY <1>1 DEF Request
<1>2. CASE EnterLock(w)
  BY <1>2 DEF EnterLock
<1>3. CASE LeaveLock(w)
  BY <1>3 DEF LeaveLock
<1>4. CASE TryPort(w)
  BY <1>4 DEF TryPort
<1>5. CASE ReleasePort(w)
  BY <1>5 DEF ReleasePort
<1>6. CASE Listen(w)
  BY <1>6 DEF Listen, Retry
<1>7. CASE CloseStatic(w)
  BY <1>7 DEF CloseStatic
<1>8. CASE Spawn(w)
  BY <1>8 DEF Spawn
<1>9. CASE ChildListens(w)
  BY <1>9 DEF ChildListens
<1>10. CASE ChildExits(w)
  BY <1>10 DEF ChildExits, Bury
<1>11. CASE Ready(w)
  BY <1>11 DEF Ready, Answers
<1>12. CASE StartFails(w)
  BY <1>12 DEF StartFails, EndStart, Retry
<1>13. CASE Close(w)
  BY <1>13 DEF Close
<1>14. CASE Kill(w)
  BY <1>14 DEF Kill, Bury, Killing
<1>15. CASE PortFree(w)
  BY <1>15 DEF PortFree, EndStart, Retry
<1>16. CASE PortStuck(w)
  BY <1>16 DEF PortStuck
<1>17. CASE Signal(w)
  BY <1>17 DEF Signal, Bury
<1>18. CASE Exit(w)
  BY <1>18 DEF Exit, Killing
<1> QED
  BY <1>1, <1>2, <1>3, <1>4, <1>5, <1>6, <1>7, <1>8, <1>9, <1>10, <1>11, <1>12, <1>13, <1>14, <1>15, <1>16, <1>17, <1>18
  DEF Step, Start

LEMMA StepKept ==
  ASSUME NEW w \in Worker, IInv, Step(w)
  PROVE  IInv'
<1>1. Typing' /\ Others(w)
  BY StepTyped, StepOthers DEF IInv
<1>2. ASSUME NEW q \in Worker
      PROVE  (Local(q) /\ Link(q) /\ Spawns(q))'
  <2>1. Local(q) /\ Link(q) /\ Spawns(q)
    BY DEF IInv, LocalInv
  <2>2. CASE q = w
    BY <1>1, <2>1, <2>2, LocalKept, LinkKept, SpawnsKept DEF IInv
  <2>3. CASE q # w
    BY <1>1, <2>1, <2>3 DEF Others, Local, Link, Spawns
  <2> QED
    BY <2>2, <2>3
<1> QED
  BY <1>1, <1>2, BoundKept, LockKept, PeerKept DEF IInv, LocalInv

\* What happens outside the workers: the promise of the lock lapses, a foreign
\* program takes a free port or leaves one.
LEMMA OutsideKept ==
  ASSUME IInv, LockLapses \/ \E p \in Port : ForeignBinds(p) \/ ForeignLeaves(p)
  PROVE  IInv'
<1>1. UNCHANGED <<stage, port, attempt, sessions, child, spawned, cleaned, exiting, phase, fooled>>
      /\ (lapsed => lapsed')
  BY DEF LockLapses, ForeignBinds, ForeignLeaves, Lock!Outstay, lockVars, progress, childVars
<1>2. \A p \in Port, w \in Worker : bound'[p] = w => bound[p] = w
  BY SessionAssumption
  DEF IInv, Typing, LockLapses, ForeignBinds, ForeignLeaves, portVars, Bind
<1>3. Typing'
  <2> USE <1>1, SessionAssumption DEF IInv, Typing
  <2>1. CASE LockLapses
    BY <2>1 DEF LockLapses, Lock!Outstay, Lock!TypeOK, portVars
  <2>2. ASSUME NEW p \in Port, ForeignBinds(p) \/ ForeignLeaves(p)
        PROVE  Typing'
    BY <2>2 DEF ForeignBinds, ForeignLeaves, Lock!TypeOK, lockVars, Bind
  <2> QED
    BY <2>1, <2>2
<1>4. LocalInv' /\ BoundInv' /\ LockInv'
  BY <1>1, <1>2 DEF IInv, LocalInv, Local, Link, Spawns, BoundInv, LockInv
<1>5. PeerInv'
  <2> SUFFICES ASSUME ~lapsed', fooled' = {}, NEW v \in Serialized, stage'[v] = "ready"
               PROVE  /\ child'[v] # "booting"
                      /\ \A w \in Serialized \ {v} :
                           stage'[w] \in {"reserved", "released", "starting"} =>
                             bound'[port'[w]] # v
    BY DEF PeerInv
  <2>1. v \in Worker /\ Serialized \subseteq Worker
    BY SessionAssumption
  <2>2. ASSUME NEW w \in Serialized \ {v}, stage[w] \in {"reserved", "released", "starting"}
        PROVE  port[w] \in Port
    BY <2>1, <2>2 DEF IInv, LocalInv, Local, Holding
  <2> QED
    BY <1>1, <1>2, <2>1, <2>2 DEF IInv, PeerInv
<1> QED
  BY <1>3, <1>4, <1>5 DEF IInv

LEMMA Inductive == IInv /\ [Next]_vars => IInv'
<1> SUFFICES ASSUME IInv, [Next]_vars PROVE IInv'
  OBVIOUS
<1>1. CASE UNCHANGED vars
  BY <1>1 DEF vars, lockVars, progress, childVars, portVars, IInv, Typing, Lock!TypeOK, LocalInv,
     Local, Link, Spawns, BoundInv, LockInv, PeerInv
<1> QED
  BY <1>1, StepKept, OutsideKept DEF Next

LEMMA InitHolds == Init => IInv
<1> SUFFICES ASSUME Init PROVE IInv
  OBVIOUS
<1> USE SessionAssumption DEF Init, Lock!Init
<1>1. Typing
  <2>1. Lock!TypeOK
    BY DEF Lock!TypeOK, Lock!Phase
  <2>2. bound \in [Port -> Worker \cup {Free, Foreign}]
    BY DEF Port
  <2> QED
    BY <2>1, <2>2 DEF Typing, Stage, Child
<1>2. ASSUME NEW w \in Worker
      PROVE  Local(w) /\ Link(w) /\ Spawns(w)
  <2>1. /\ stage[w] = "idle" /\ child[w] = "none" /\ phase[w] = "out"
        /\ w \notin exiting /\ sessions[w] = 0 /\ spawned[w] = 0 /\ cleaned[w] = FALSE
    OBVIOUS
  <2> QED
    BY <2>1 DEF Local, Link, Spawns, Holding, Managing, Alive, Inside
<1>3. BoundInv /\ LockInv /\ PeerInv
  BY DEF BoundInv, LockInv, PeerInv
<1> QED
  BY <1>1, <1>2, <1>3 DEF IInv, LocalInv

LEMMA InvariantHolds == Spec => []IInv
BY InitHolds, Inductive, PTL DEF Spec

\* Every state has the types the code keeps: an attempt within the limit, and
\* no more children than the sessions have attempts.
THEOREM TypeCorrect == Spec => []TypeOK
<1>1. ASSUME IInv
      PROVE  TypeOK
  <2>1. ASSUME NEW w \in Worker
        PROVE  spawned[w] \in 0..MaxSessions * MaxAttempts
    <3>1. Spawns(w) /\ spawned[w] \in Nat /\ sessions[w] \in 0..MaxSessions
          /\ attempt[w] \in 0..MaxAttempts
      BY <1>1 DEF IInv, LocalInv, Typing
    <3>2. MaxSessions * MaxAttempts \in Nat
      BY SessionAssumption
    <3>3. CASE sessions[w] = 0
      BY <3>1, <3>2, <3>3 DEF Spawns
    <3>4. CASE sessions[w] > 0
      <4>1. sessions[w] \in 1..MaxSessions
        BY <3>1, <3>4, SessionAssumption
      <4>2. Budget(sessions[w], attempt[w]) \in Int
            /\ Budget(sessions[w], attempt[w]) <= MaxSessions * MaxAttempts
        BY <3>1, <4>1, BudgetIs
      <4> QED
        BY <3>1, <3>2, <3>4, <4>2 DEF Spawns
    <3> QED
      BY <3>1, <3>3, <3>4
  <2> QED
    BY <1>1, <2>1 DEF IInv, Typing, TypeOK
<1> QED
  BY <1>1, InvariantHolds, PTL

\* However starts, failures, closings and signals interleave, a session that is
\* over has no server any more.
THEOREM ServersStop == Spec => []ServerStopped
<1>1. IInv => ServerStopped
  BY SessionAssumption DEF IInv, LocalInv, Local, ServerStopped, Ended
<1> QED
  BY <1>1, InvariantHolds, PTL

\* No start and no end of a session leaves a port bound behind it.
THEOREM NothingStaysBound == Spec => []PortsAccountedFor
<1>1. IInv => PortsAccountedFor
  BY DEF IInv, BoundInv, PortsAccountedFor
<1> QED
  BY <1>1, InvariantHolds, PTL

\* A serialized session becomes ready on its own server or a stranger's, not on
\* that of another serialized session, until the lock fails or a stranger has
\* answered.
THEOREM PeersKeptApart == Spec => NotFooledByPeer
<1> DEFINE Apart ==
      \A v, w \in Serialized :
        /\ v # w /\ stage[v] \in {"starting", "ready"}
        /\ stage[w] # "ready" /\ stage'[w] = "ready"
        /\ ~lapsed /\ fooled = {}
        => bound'[port[w]] # v
<1>1. ASSUME IInv, [Next]_vars
      PROVE  [Apart]_vars
  <2> SUFFICES ASSUME NEW v \in Serialized, NEW w \in Serialized, v # w,
                      stage[v] \in {"starting", "ready"},
                      stage[w] # "ready", stage'[w] = "ready", ~lapsed, fooled = {}
               PROVE  bound'[port[w]] # v
    OBVIOUS
  <2>1. v \in Worker /\ w \in Worker /\ Link(v) /\ Link(w) /\ Local(w) /\ Typing
    BY <1>1, SessionAssumption DEF IInv, LocalInv
  <2>2. PICK u \in Worker : Step(u)
    BY <1>1 DEF Next, vars, progress, LockLapses, ForeignBinds, ForeignLeaves
  <2>3. u = w
    BY <2>1, <2>2, StepOthers DEF Others
  <2>4. Ready(w) \/ (Listen(w) /\ bound[port[w]] = Free)
    BY <2>1, <2>2, <2>3
  DEF Step, Start, Typing, Reach, Retry, EndStart, progress, Request, EnterLock, TryPort,
      ReleasePort, Listen, Spawn, Ready, StartFails, Kill, PortFree, PortStuck, LeaveLock,
      CloseStatic, Close, ChildListens, ChildExits, Signal, Exit
  <2>5. phase[w] = "in" /\ stage[w] \in {"released", "starting"}
    BY <2>1, <2>4 DEF Ready, Listen, Link, Inside
  <2>6. stage[v] = "ready"
    <3>1. phase[v] # "in"
      BY <1>1, <2>1, <2>5 DEF IInv, LockInv
    <3> QED
      BY <2>1, <3>1 DEF Link, Inside
  <2>7. bound[port[w]] # v
    BY <1>1, <2>5, <2>6 DEF IInv, PeerInv
  <2>8. CASE Ready(w)
    BY <2>7, <2>8 DEF Ready, portVars
  <2>9. CASE Listen(w) /\ bound[port[w]] = Free
    BY <2>1, <2>7, <2>9 DEF Listen, Bind, Typing
  <2> QED
    BY <2>4, <2>8, <2>9
<1>2. IInv /\ [Next]_vars => [Apart]_vars
  BY <1>1
<1> QED
  BY <1>2, InvariantHolds, PTL DEF Spec, NotFooledByPeer

-----------------------------------------------------------------------------
(* The sessions and the lock they run their starts under                   *)

\* Every step of the sessions is a step of the lock or leaves it alone.
LEMMA LockUsed ==
  ASSUME [Next]_vars
  PROVE  [Lock!Next]_(Lock!vars)
<1>1. CASE LockLapses
  BY <1>1 DEF LockLapses, Lock!Next
<1>2. ASSUME NEW w \in Worker, Step(w)
      PROVE  (\/ Lock!Ask(w) \/ Lock!Enter(w) \/ Lock!Leave(w) \/ Lock!Die(w))
             \/ UNCHANGED lockVars
  BY <1>2 DEF Step, Start, Request, EnterLock, LeaveLock, TryPort, ReleasePort, Listen, Spawn,
     Ready, StartFails, Kill, PortFree, PortStuck, CloseStatic, Close, ChildListens, ChildExits,
     Signal, Exit, lockVars
<1>3. ASSUME NEW p \in Port, ForeignBinds(p) \/ ForeignLeaves(p)
      PROVE  UNCHANGED lockVars
  BY <1>3 DEF ForeignBinds, ForeignLeaves
<1>4. CASE UNCHANGED vars
  BY <1>4 DEF vars, lockVars, Lock!vars
<1> QED
  BY <1>1, <1>2, <1>3, <1>4 DEF Next, Lock!Next, Lock!vars, lockVars

\* The sessions use the listen-port lock in no other way than its abstract
\* specification allows: starts that settle, exits inside and outside the lock and
\* sessions that bypass it included.
THEOREM SessionsUseLock == Spec => Lock!Spec
<1>1. Init => Lock!Init
  BY DEF Init
<1>2. [Next]_vars => [Lock!Next]_(Lock!vars)
  BY LockUsed
<1> QED
  BY <1>1, <1>2, PTL DEF Spec, Lock!Spec

\* What the abstract lock is worth to its users: until a worker dies inside or stays
\* too long, one worker at a time is inside, for any number of workers.
THEOREM PromiseExcludes == Lock!Spec => []Lock!Exclusive
<1>1. Lock!Init => Lock!TypeOK /\ Lock!Exclusive
  BY DEF Lock!Init, Lock!TypeOK, Lock!Phase, Lock!Exclusive
<1>2. ASSUME Lock!TypeOK, Lock!Exclusive, [Lock!Next]_(Lock!vars)
      PROVE  Lock!TypeOK' /\ Lock!Exclusive'
  <2> USE DEF Lock!TypeOK, Lock!Phase, Lock!Exclusive, Lock!Become
  <2>1. CASE Lock!Outstay
    BY <1>2, <2>1 DEF Lock!Outstay
  <2>2. ASSUME NEW W \in SUBSET Worker, Lock!Perish(W)
        PROVE  Lock!TypeOK' /\ Lock!Exclusive'
    BY <1>2, <2>2 DEF Lock!Perish
  <2>3. ASSUME NEW w \in Worker, Lock!Ask(w) \/ Lock!Enter(w) \/ Lock!Leave(w) \/ Lock!Die(w)
        PROVE  Lock!TypeOK' /\ Lock!Exclusive'
    BY <1>2, <2>3 DEF Lock!Ask, Lock!Enter, Lock!Leave, Lock!Die
  <2>4. CASE UNCHANGED Lock!vars
    BY <1>2, <2>4 DEF Lock!vars
  <2> QED
    BY <1>2, <2>1, <2>2, <2>3, <2>4 DEF Lock!Next
<1>3. Lock!TypeOK /\ Lock!Exclusive /\ [Lock!Next]_(Lock!vars) => (Lock!TypeOK /\ Lock!Exclusive)'
  BY <1>2
<1> QED
  BY <1>1, <1>3, PTL DEF Lock!Spec
=============================================================================
