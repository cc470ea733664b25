-------------------------- MODULE FactoryWorkflow --------------------------
(***************************************************************************)
(* The workflow of the software factory that writes this site, as            *)
(* factory/factory.json declares it: work items in states, and stations that *)
(* take items in some states and leave items in others.                     *)
(*                                                                         *)
(* The engine that runs the workflow is not part of the repository.  Of it   *)
(* is assumed: it takes the inputs of a station in any combination the        *)
(* guards allow, takes the station's resource while its agent or script       *)
(* works, and puts the items where the outcome of the work says, those of a   *)
(* type the station did not take under the name of the first it took.        *)
(* Logical moves take no time.  A visit counts when the work begins.          *)
(***************************************************************************)
EXTENDS Naturals, FiniteSets

CONSTANTS
  Name,          \* names of work items
  Kinds,         \* Kinds[n]: what may be submitted under name n
  Capacity,      \* Capacity[r]: units of resource r
  MaxVisits,     \* MaxVisits[s]: visits of station s after which its breaker fires
  Loopback,      \* the name of the thoughts the clock starts
  MaxCron        \* firings of the clock

States ==
  [thoughts |-> {"init", "complete", "failed"},
   idea     |-> {"init", "to-complete", "complete", "failed"},
   plan     |-> {"init", "complete", "failed"},
   task     |-> {"init", "in-review", "to-complete", "complete", "failed"},
   review   |-> {"init", "complete", "fin"}]

Resource == {"executor-slot", "concurrent-planners"}

ASSUME FactoryAssumption ==
  /\ IsFiniteSet(Name)
  /\ Kinds \in [Name -> SUBSET {"idea", "plan", "task"}]
  /\ Capacity \in [Resource -> Nat \ {0}]
  /\ MaxVisits \in [{"process", "review"} -> Nat \ {0}]
  /\ Loopback \in Name /\ MaxCron \in Nat

-----------------------------------------------------------------------------
(* The stations: what they take, the type whose item names the working       *)
(* directory, the resource they need, and what each outcome leaves.           *)

Ideafy ==
  [inputs |-> [thoughts |-> "init"], first |-> "thoughts",
   needs |-> {"concurrent-planners"},
   results |-> {[thoughts |-> "complete"], [thoughts |-> "failed"]}]

Plan ==
  [inputs |-> [idea |-> "init"], first |-> "idea", needs |-> {"executor-slot"},
   results |-> {[idea |-> "to-complete", plan |-> "init"], [idea |-> "failed"]}]

\* Mutant: a setup that fails leaves the task for a later attempt.
SetupWorkspaceTaskAnyway ==
  [inputs |-> [plan |-> "init"], first |-> "plan", needs |-> {},
   results |-> {[plan |-> "complete", task |-> "init"],
                [plan |-> "init", task |-> "init"]}]

SetupWorkspace ==
  [inputs |-> [plan |-> "init"], first |-> "plan", needs |-> {},
   results |-> {[plan |-> "complete", task |-> "init"], [plan |-> "failed"]}]

\* Mutant: the agent's work is passed on without a review item.
ProcessNoReview ==
  [inputs |-> [task |-> "init"], first |-> "task", needs |-> {"executor-slot"},
   results |-> {[task |-> "in-review"], [task |-> "failed"], [task |-> "init"]}]

\* An agent that continues and one that is rejected both start again.
Process ==
  [inputs |-> [task |-> "init"], first |-> "task", needs |-> {"executor-slot"},
   results |-> {[task |-> "in-review", review |-> "init"],
                [task |-> "failed"], [task |-> "init"]}]

\* Mutant: a rejection keeps the review for the next attempt.
ReviewKept ==
  [inputs |-> [task |-> "in-review", review |-> "init"], first |-> "task",
   needs |-> {"executor-slot"},
   results |-> {[task |-> "to-complete", review |-> "complete"],
                [task |-> "failed", review |-> "fin"],
                [task |-> "init", review |-> "init"]}]

\* A rejection uses the review item up.
Review ==
  [inputs |-> [task |-> "in-review", review |-> "init"], first |-> "task",
   needs |-> {"executor-slot"},
   results |-> {[task |-> "to-complete", review |-> "complete"],
                [task |-> "failed", review |-> "fin"],
                [task |-> "init"]}]

Consume ==
  [inputs |-> [idea |-> "to-complete", task |-> "to-complete"], first |-> "idea",
   needs |-> {}, results |-> {[idea |-> "complete", task |-> "complete"]}]

ExecutorLoopBreaker ==
  [inputs |-> [task |-> "init"], first |-> "task", needs |-> {},
   results |-> {[task |-> "failed"]}]

ReviewLoopBreaker ==
  [inputs |-> [task |-> "in-review"], first |-> "task", needs |-> {},
   results |-> {[task |-> "failed"]}]

Workers ==
  [ideafy |-> Ideafy, plan |-> Plan, setup |-> SetupWorkspace,
   process |-> Process, review |-> Review]

Moves ==
  [consume |-> Consume, execBreaker |-> ExecutorLoopBreaker,
   reviewBreaker |-> ReviewLoopBreaker]

Stations == [s \in DOMAIN Workers \cup DOMAIN Moves |->
               IF s \in DOMAIN Workers THEN Workers[s] ELSE Moves[s]]

-----------------------------------------------------------------------------

\* Names under which something can be submitted.
Lanes == {n \in Name : Kinds[n] # {}}

\* Names under which there may be items of a type.
Named(type) == IF type = "thoughts" THEN {Loopback} ELSE Lanes

Token == UNION {[type : {t}, state : States[t], name : Named(t)] : t \in DOMAIN States}

\* The items station s takes, by type, and under which name each.
Binding ==
  [s \in DOMAIN Stations |->
     LET types == DOMAIN Stations[s].inputs IN
     {names \in [types -> Name] : \A t \in types : names[t] \in Named(t)}]

Run == UNION {[station : {s}, names : Binding[s]] : s \in DOMAIN Workers}

VARIABLES
  work,        \* work[k]: items of that type, name and state at rest
  running,     \* agents and scripts at work
  visits,      \* visits[s][n]: visits of s by task n, counted up to MaxVisits[s]
  submitted,   \* names submitted
  cron,        \* firings of the clock
  broken       \* firings of the review breaker, history

vars == <<work, running, visits, submitted, cron, broken>>

\* Runs of stations that need r.
Users(r) == Cardinality({run \in running : r \in Stations[run.station].needs})

TypeOK ==
  /\ work \in [Token -> Nat]
  /\ running \subseteq Run
  /\ visits \in [DOMAIN MaxVisits -> [Lanes -> Nat]]
  /\ \A s \in DOMAIN MaxVisits, n \in Lanes : visits[s][n] <= MaxVisits[s]
  /\ submitted \subseteq Lanes /\ cron \in 0..MaxCron /\ broken \in Nat
  /\ \A r \in Resource : Users(r) <= Capacity[r]

Init ==
  /\ work = [k \in Token |-> 0]
  /\ running = {}
  /\ visits = [s \in DOMAIN MaxVisits |-> [n \in Lanes |-> 0]]
  /\ submitted = {} /\ cron = 0 /\ broken = 0

Item(type, state, name) == [type |-> type, state |-> state, name |-> name]

\* The items of types that states gives, with the names of the binding.
Items(s, names, states) ==
  {Item(t, states[t],
        IF t \in DOMAIN names THEN names[t] ELSE names[Stations[s].first]) :
     t \in DOMAIN states}

Present(s, names) ==
  \A t \in DOMAIN names : work[Item(t, Stations[s].inputs[t], names[t])] > 0

Take(s, names) ==
  LET taken == Items(s, names, Stations[s].inputs) IN
  [k \in Token |-> IF k \in taken THEN work[k] - 1 ELSE work[k]]

Put(items, s, names, result) ==
  LET put == Items(s, names, result) IN
  [k \in Token |-> IF k \in put THEN items[k] + 1 ELSE items[k]]

-----------------------------------------------------------------------------

\* The planner, or an operator through factory/inputs.
Submit(n, kind) ==
  /\ n \notin submitted /\ submitted' = submitted \cup {n}
  /\ work' = [work EXCEPT ![Item(kind, "init", n)] = @ + 1]
  /\ UNCHANGED <<running, visits, cron, broken>>

ThoughtRetrigger ==
  /\ cron < MaxCron /\ cron' = cron + 1
  /\ work' = [work EXCEPT ![Item("thoughts", "init", Loopback)] = @ + 1]
  /\ UNCHANGED <<running, visits, submitted, broken>>

\* Mutant: one unit too many is handed out.
FreeOneMore(r) == Users(r) <= Capacity[r]

Free(r) == Users(r) < Capacity[r]

Dispatch(s, names) ==
  /\ Present(s, names)
  /\ \A r \in Stations[s].needs : Free(r)
  /\ running' = running \cup {[station |-> s, names |-> names]}
  /\ work' = Take(s, names)
  /\ visits' = IF s \in DOMAIN visits /\ visits[s][names.task] < MaxVisits[s]
               THEN [visits EXCEPT ![s][names.task] = @ + 1]
               ELSE visits
  /\ UNCHANGED <<submitted, cron, broken>>

\* The agent or script ends, with any of the outcomes.
Finish(run) ==
  /\ run \in running /\ running' = running \ {run}
  /\ \E result \in Stations[run.station].results :
       work' = Put(work, run.station, run.names, result)
  /\ UNCHANGED <<visits, submitted, cron, broken>>

\* SAME_NAME and VISIT_COUNT.
Guard(s, names) ==
  CASE s = "consume" -> names.idea = names.task
    [] s = "execBreaker" -> visits["process"][names.task] >= MaxVisits["process"]
    [] s = "reviewBreaker" -> visits["review"][names.task] >= MaxVisits["review"]

Move(s, names) ==
  /\ Present(s, names) /\ Guard(s, names)
  /\ \E result \in Stations[s].results :
       work' = Put(Take(s, names), s, names, result)
  /\ broken' = IF s = "reviewBreaker" THEN broken + 1 ELSE broken
  /\ UNCHANGED <<running, visits, submitted, cron>>

Next ==
  \/ \E n \in Lanes : \E kind \in Kinds[n] : Submit(n, kind)
  \/ ThoughtRetrigger
  \/ \E s \in DOMAIN Workers : \E names \in Binding[s] : Dispatch(s, names)
  \/ \E run \in running : Finish(run)
  \/ \E s \in DOMAIN Moves : \E names \in Binding[s] : Move(s, names)

\* Something goes on while an agent or a script can end, a station can begin or
\* an idea be consumed; the breakers of a task, of which either ends it, fire if
\* they can whenever it comes back.
Fairness ==
  /\ WF_vars(\/ \E run \in running : Finish(run)
             \/ \E s \in DOMAIN Workers : \E names \in Binding[s] : Dispatch(s, names)
             \/ \E n \in Lanes : Move("consume", [idea |-> n, task |-> n]))
  /\ \A n \in Lanes :
       SF_vars(\E s \in {"execBreaker", "reviewBreaker"} : Move(s, [task |-> n]))

Spec == Init /\ [][Next]_vars /\ Fairness

-----------------------------------------------------------------------------

\* The items of a type at rest in a state, told apart by name and number.
Units(type, state) ==
  UNION {{n} \X (1..work[Item(type, state, n)]) : n \in Named(type)}

Count(type, state) == Cardinality(Units(type, state))

\* However reviews are paired with tasks, a task in review finds a review item,
\* and one is left over only where the breaker has taken a task away; as many
\* reviews are complete as tasks have passed theirs.
ReviewsAccountedFor ==
  /\ Count("review", "init") = Count("task", "in-review") + broken
  /\ Count("review", "complete") = Count("task", "to-complete") + Count("task", "complete")

\* Whatever is rejected, repeated and retried, at most one script or agent is
\* at work in the worktree of a name.
WorktreeExclusive ==
  \A d, e \in {r \in running : r.station \in {"setup", "process", "review"}} :
    d.names[Stations[d.station].first] = e.names[Stations[e.station].first] => d = e

Has(type, state, n) == work[Item(type, state, n)] > 0

\* What comes to rest for good: a name whose idea is complete, whose idea, plan
\* or task has failed, or whose task was submitted without an idea and waits.
AtRest(n) ==
  \/ Has("idea", "complete", n)
  \/ \E t \in {"idea", "plan", "task"} : Has(t, "failed", n)
  \/ Has("task", "to-complete", n) /\ ~Has("idea", "to-complete", n)

\* Whatever the agents decide, everything submitted comes to rest, and stays so;
\* an idea that is never completed has failed itself, or its plan or task has.
WorkSettles == <>[](\A n \in submitted : AtRest(n))
=============================================================================
