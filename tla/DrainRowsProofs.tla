--------------------------- MODULE DrainRowsProofs ---------------------------
(***************************************************************************)
(* The factory workflow, and the drain rows of merged pull requests, for all *)
(* constants: types and resources, one agent to a worktree, and a drain idea *)
(* that is moved only for a lane that is finished.                          *)
(***************************************************************************)
EXTENDS DrainRows, FiniteSetTheorems, TLAPS

LEMMA StationsAre ==
  /\ DOMAIN Stations = {"ideafy", "plan", "setup", "process", "review",
                        "consume", "execBreaker", "reviewBreaker"}
  /\ DOMAIN Workers = {"ideafy", "plan", "setup", "process", "review"}
  /\ DOMAIN Moves = {"consume", "execBreaker", "reviewBreaker"}
  /\ Stations["ideafy"] = Ideafy /\ Stations["plan"] = Plan
  /\ Stations["setup"] = SetupWorkspace /\ Stations["process"] = Process
  /\ Stations["review"] = Review /\ Stations["consume"] = Consume
  /\ Stations["execBreaker"] = ExecutorLoopBreaker
  /\ Stations["reviewBreaker"] = ReviewLoopBreaker
BY DEF Stations, Workers, Moves

LEMMA BindingIs ==
  ASSUME NEW s \in DOMAIN Stations, NEW names \in Binding[s]
  PROVE  /\ s = "ideafy" => DOMAIN names = {"thoughts"} /\ names["thoughts"] = Loopback
         /\ s = "plan" => DOMAIN names = {"idea"} /\ names["idea"] \in Lanes
         /\ s = "setup" => DOMAIN names = {"plan"} /\ names["plan"] \in Lanes
         /\ s \in {"process", "execBreaker", "reviewBreaker"} =>
              DOMAIN names = {"task"} /\ names["task"] \in Lanes
         /\ s = "review" =>
              /\ DOMAIN names = {"task", "review"}
              /\ names["task"] \in Lanes /\ names["review"] \in Lanes
         /\ s = "consume" =>
              /\ DOMAIN names = {"idea", "task"}
              /\ names["idea"] \in Lanes /\ names["task"] \in Lanes
         /\ DOMAIN names = DOMAIN Stations[s].inputs
BY StationsAre DEF Binding, Ideafy, Plan, SetupWorkspace, Process, Review, Consume,
   ExecutorLoopBreaker, ReviewLoopBreaker, Named

-----------------------------------------------------------------------------
(* The items each station takes and leaves                                 *)

LEMMA IdeafyItems ==
  ASSUME NEW names \in Binding["ideafy"]
  PROVE  /\ Items("ideafy", names, Stations["ideafy"].inputs) =
              {Item("thoughts", "init", Loopback)}
         /\ \A result \in Stations["ideafy"].results :
              \E s \in {"complete", "failed"} :
                Items("ideafy", names, result) = {Item("thoughts", s, Loopback)}
BY StationsAre, BindingIs DEF Items, Ideafy

LEMMA PlanItems ==
  ASSUME NEW names \in Binding["plan"]
  PROVE  /\ Items("plan", names, Stations["plan"].inputs) =
              {Item("idea", "init", names["idea"])}
         /\ \A result \in Stations["plan"].results :
              \/ Items("plan", names, result) =
                   {Item("idea", "to-complete", names["idea"]),
                    Item("plan", "init", names["idea"])}
              \/ Items("plan", names, result) = {Item("idea", "failed", names["idea"])}
BY StationsAre, BindingIs DEF Items, Plan

LEMMA SetupItems ==
  ASSUME NEW names \in Binding["setup"]
  PROVE  /\ Items("setup", names, Stations["setup"].inputs) =
              {Item("plan", "init", names["plan"])}
         /\ \A result \in Stations["setup"].results :
              \/ Items("setup", names, result) =
                   {Item("plan", "complete", names["plan"]),
                    Item("task", "init", names["plan"])}
              \/ Items("setup", names, result) = {Item("plan", "failed", names["plan"])}
BY StationsAre, BindingIs DEF Items, SetupWorkspace

LEMMA ProcessItems ==
  ASSUME NEW names \in Binding["process"]
  PROVE  /\ Items("process", names, Stations["process"].inputs) =
              {Item("task", "init", names["task"])}
         /\ \A result \in Stations["process"].results :
              \/ Items("process", names, result) =
                   {Item("task", "in-review", names["task"]),
                    Item("review", "init", names["task"])}
              \/ \E s \in {"failed", "init"} :
                   Items("process", names, result) = {Item("task", s, names["task"])}
BY StationsAre, BindingIs DEF Items, Process

LEMMA ReviewItems ==
  ASSUME NEW names \in Binding["review"]
  PROVE  /\ Items("review", names, Stations["review"].inputs) =
              {Item("task", "in-review", names["task"]),
               Item("review", "init", names["review"])}
         /\ \A result \in Stations["review"].results :
              \/ Items("review", names, result) =
                   {Item("task", "to-complete", names["task"]),
                    Item("review", "complete", names["review"])}
              \/ Items("review", names, result) =
                   {Item("task", "failed", names["task"]),
                    Item("review", "fin", names["review"])}
              \/ Items("review", names, result) = {Item("task", "init", names["task"])}
BY StationsAre, BindingIs DEF Items, Review

LEMMA MoveItems ==
  /\ \A names \in Binding["consume"] :
       /\ Items("consume", names, Stations["consume"].inputs) =
            {Item("idea", "to-complete", names["idea"]),
             Item("task", "to-complete", names["task"])}
       /\ \A result \in Stations["consume"].results :
            Items("consume", names, result) =
              {Item("idea", "complete", names["idea"]),
               Item("task", "complete", names["task"])}
  /\ \A names \in Binding["execBreaker"] :
       /\ Items("execBreaker", names, Stations["execBreaker"].inputs) =
            {Item("task", "init", names["task"])}
       /\ \A result \in Stations["execBreaker"].results :
            Items("execBreaker", names, result) = {Item("task", "failed", names["task"])}
  /\ \A names \in Binding["reviewBreaker"] :
       /\ Items("reviewBreaker", names, Stations["reviewBreaker"].inputs) =
            {Item("task", "in-review", names["task"])}
       /\ \A result \in Stations["reviewBreaker"].results :
            Items("reviewBreaker", names, result) = {Item("task", "failed", names["task"])}
<1>1. ASSUME NEW names \in Binding["consume"]
      PROVE  /\ Items("consume", names, Stations["consume"].inputs) =
                  {Item("idea", "to-complete", names["idea"]),
                   Item("task", "to-complete", names["task"])}
             /\ \A result \in Stations["consume"].results :
                  Items("consume", names, result) =
                    {Item("idea", "complete", names["idea"]),
                     Item("task", "complete", names["task"])}
  BY StationsAre, BindingIs DEF Items, Consume
<1>2. ASSUME NEW names \in Binding["execBreaker"]
      PROVE  /\ Items("execBreaker", names, Stations["execBreaker"].inputs) =
                  {Item("task", "init", names["task"])}
             /\ \A result \in Stations["execBreaker"].results :
                  Items("execBreaker", names, result) = {Item("task", "failed", names["task"])}
  BY StationsAre, BindingIs DEF Items, ExecutorLoopBreaker
<1>3. ASSUME NEW names \in Binding["reviewBreaker"]
      PROVE  /\ Items("reviewBreaker", names, Stations["reviewBreaker"].inputs) =
                  {Item("task", "in-review", names["task"])}
             /\ \A result \in Stations["reviewBreaker"].results :
                  Items("reviewBreaker", names, result) = {Item("task", "failed", names["task"])}
  BY StationsAre, BindingIs DEF Items, ReviewLoopBreaker
<1> QED
  BY <1>1, <1>2, <1>3

LEMMA TokenIs ==
  ASSUME NEW t \in DOMAIN States, NEW s \in States[t], NEW n \in Named(t)
  PROVE  Item(t, s, n) \in Token
BY DEF Token, Item

\* What a station takes is there.
LEMMA PresentTaken ==
  ASSUME NEW s \in DOMAIN Stations, NEW names \in Binding[s], Present(s, names),
         NEW k \in Items(s, names, Stations[s].inputs)
  PROVE  work[k] > 0
BY BindingIs DEF Items, Present

-----------------------------------------------------------------------------
(* Types                                                                   *)

\* The types without the use of the resources.
WorkTyping ==
  /\ work \in [Token -> Nat]
  /\ running \subseteq Run /\ IsFiniteSet(running)
  /\ visits \in [DOMAIN MaxVisits -> [Lanes -> Nat]]
  /\ \A s \in DOMAIN MaxVisits, n \in Lanes : visits[s][n] <= MaxVisits[s]
  /\ submitted \subseteq Lanes /\ cron \in 0..MaxCron /\ broken \in Nat

Uses == \A r \in Resource : Users(r) <= Capacity[r]

LEMMA RunIs ==
  ASSUME NEW s \in DOMAIN Workers, NEW names \in Binding[s]
  PROVE  [station |-> s, names |-> names] \in Run
BY DEF Run

LEMMA RunHas ==
  ASSUME NEW run \in Run
  PROVE  /\ run.station \in DOMAIN Workers /\ run.names \in Binding[run.station]
         /\ run = [station |-> run.station, names |-> run.names]
BY DEF Run

LEMMA TakeTyped ==
  ASSUME work \in [Token -> Nat], NEW s \in DOMAIN Stations, NEW names \in Binding[s],
         Present(s, names)
  PROVE  Take(s, names) \in [Token -> Nat]
BY PresentTaken DEF Take

LEMMA PutTyped ==
  ASSUME NEW items \in [Token -> Nat], NEW s, NEW names, NEW result
  PROVE  Put(items, s, names, result) \in [Token -> Nat]
BY DEF Put

LEMMA WorkTyped ==
  ASSUME WorkTyping, Next
  PROVE  WorkTyping'
<1> USE FactoryAssumption DEF WorkTyping
<1>1. ASSUME NEW n \in Lanes, NEW kind \in Kinds[n], Submit(n, kind)
      PROVE  WorkTyping'
  <2>1. Kinds[n] \subseteq {"idea", "plan", "task"}
    BY DEF Lanes
  <2>2. Item(kind, "init", n) \in Token
    BY <2>1, TokenIs DEF States, Named
  <2> QED
    BY <1>1, <2>2 DEF Submit
<1>2. CASE ThoughtRetrigger
  <2>1. Item("thoughts", "init", Loopback) \in Token
    BY TokenIs DEF States, Named
  <2> QED
    BY <1>2, <2>1 DEF ThoughtRetrigger
<1>3. ASSUME NEW s \in DOMAIN Workers, NEW names \in Binding[s], Dispatch(s, names)
      PROVE  WorkTyping'
  <2>1. s \in DOMAIN Stations /\ work' \in [Token -> Nat]
    BY <1>3, StationsAre, TakeTyped DEF Dispatch
  <2>2. running' \subseteq Run /\ IsFiniteSet(running')
    <3> DEFINE new == [station |-> s, names |-> names]
    <3>1. running' = running \cup {new}
      BY <1>3 DEF Dispatch
    <3>2. new \in Run
      BY RunIs
    <3> HIDE DEF new
    <3>3. IsFiniteSet(running \cup {new})
      BY FS_AddElement
    <3> QED
      BY <3>1, <3>2, <3>3
  <2>3. /\ visits' \in [DOMAIN MaxVisits -> [Lanes -> Nat]]
        /\ \A q \in DOMAIN MaxVisits, n \in Lanes : visits'[q][n] <= MaxVisits[q]
    <3>1. CASE s \in DOMAIN visits /\ visits[s][names.task] < MaxVisits[s]
      <4>1. visits' = [visits EXCEPT ![s][names.task] = @ + 1]
        BY <1>3, <3>1 DEF Dispatch
      <4>2. names.task \in Lanes /\ s \in DOMAIN MaxVisits /\ MaxVisits[s] \in Nat
            /\ visits[s][names.task] \in Nat
        BY <3>1, <2>1, BindingIs
      <4> QED
        BY <3>1, <4>1, <4>2
    <3>2. CASE ~(s \in DOMAIN visits /\ visits[s][names.task] < MaxVisits[s])
      BY <1>3, <3>2 DEF Dispatch
    <3> QED
      BY <3>1, <3>2
  <2> QED
    BY <1>3, <2>1, <2>2, <2>3 DEF Dispatch
<1>4. ASSUME NEW run \in running, Finish(run)
      PROVE  WorkTyping'
  <2>1. work' \in [Token -> Nat]
    BY <1>4, PutTyped DEF Finish
  <2>2. running' \subseteq Run /\ IsFiniteSet(running')
    BY <1>4, FS_RemoveElement DEF Finish
  <2> QED
    BY <1>4, <2>1, <2>2 DEF Finish
<1>5. ASSUME NEW s \in DOMAIN Moves, NEW names \in Binding[s], Move(s, names)
      PROVE  WorkTyping'
  <2>1. work' \in [Token -> Nat]
    BY <1>5, StationsAre, TakeTyped, PutTyped DEF Move
  <2> QED
    BY <1>5, <2>1 DEF Move
<1> QED
  BY <1>1, <1>2, <1>3, <1>4, <1>5 DEF Next

\* No unit of a resource is handed out twice.
LEMMA UsesKept ==
  ASSUME WorkTyping, Uses, Next
  PROVE  Uses'
<1> SUFFICES ASSUME NEW r \in Resource
             PROVE  Users(r)' <= Capacity[r]
  BY DEF Uses
<1> DEFINE Using(runs) == {run \in runs : r \in Stations[run.station].needs}
<1>1. IsFiniteSet(Using(running)) /\ Cardinality(Using(running)) \in Nat
      /\ Users(r) = Cardinality(Using(running)) /\ Users(r)' = Cardinality(Using(running'))
  BY FS_Subset, FS_CardinalityType DEF WorkTyping, Users
<1>2. Capacity[r] \in Nat /\ Cardinality(Using(running)) <= Capacity[r]
  BY <1>1, FactoryAssumption DEF Uses
<1>3. ASSUME NEW s \in DOMAIN Workers, NEW names \in Binding[s], Dispatch(s, names)
      PROVE  Users(r)' <= Capacity[r]
  <2> DEFINE new == [station |-> s, names |-> names]
  <2>1. running' = running \cup {new}
    BY <1>3 DEF Dispatch
  <2>2. CASE r \in Stations[s].needs
    <3>1. Users(r) < Capacity[r]
      BY <1>3, <2>2 DEF Dispatch, Free
    <3>2. Using(running') = Using(running) \cup {new}
      BY <2>1, <2>2
    <3> HIDE DEF Using, new
    <3>3. Cardinality(Using(running) \cup {new}) =
            IF new \in Using(running) THEN Cardinality(Using(running))
                                      ELSE Cardinality(Using(running)) + 1
      BY <1>1, FS_AddElement
    <3> QED
      BY <1>1, <1>2, <3>1, <3>2, <3>3
  <2>3. CASE r \notin Stations[s].needs
    <3>1. Using(running') = Using(running)
      BY <2>1, <2>3
    <3> QED
      BY <1>1, <1>2, <3>1
  <2> QED
    BY <2>2, <2>3
<1>4. CASE running' \subseteq running
  <2>1. Using(running') \subseteq Using(running)
    BY <1>4
  <2>2. Cardinality(Using(running')) <= Cardinality(Using(running))
        /\ Cardinality(Using(running')) \in Nat
    BY <1>1, <2>1, FS_Subset, FS_CardinalityType
  <2> QED
    BY <1>1, <1>2, <2>2
<1>5. \/ running' \subseteq running
      \/ \E s \in DOMAIN Workers : \E names \in Binding[s] : Dispatch(s, names)
  BY DEF Next, Submit, ThoughtRetrigger, Finish, Move
<1> QED
  BY <1>3, <1>4, <1>5

-----------------------------------------------------------------------------
(* One item of a name at a time goes from idea to task                     *)

\* The items a name's work goes through, and the stations that move it on.
Line(n) ==
  {Item(t, "init", n) : t \in {"idea", "plan"}} \cup {Item("task", s, n) : s \in States["task"]}

Laned == {"plan", "setup", "process", "review"}

Subject(run) == run.names[Stations[run.station].first]

On(run, n) == run.station \in Laned /\ Subject(run) = n

\* At most one item of the line exists, at rest or at work, and none before the
\* name is submitted.
LineInv(n) ==
  /\ \A k \in Line(n) : work[k] <= 1
  /\ \A k, l \in Line(n) : work[k] > 0 /\ work[l] > 0 => k = l
  /\ \A d, e \in running : On(d, n) /\ On(e, n) => d = e
  /\ \A d \in running, k \in Line(n) : On(d, n) => work[k] = 0
  /\ n \notin submitted =>
       (\A k \in Line(n) : work[k] = 0) /\ \A d \in running : ~On(d, n)

LEMMA LineIs ==
  ASSUME NEW t, NEW s, NEW m, NEW n
  PROVE  Item(t, s, m) \in Line(n) <=>
           /\ m = n
           /\ \/ t \in {"idea", "plan"} /\ s = "init"
              \/ t = "task" /\ s \in States["task"]
BY DEF Line, Item

LEMMA LineTokens ==
  ASSUME NEW n \in Lanes
  PROVE  Line(n) \subseteq Token
BY TokenIs DEF Line, Named, States

LEMMA SubjectIs ==
  ASSUME NEW s \in DOMAIN Stations, NEW names \in Binding[s]
  PROVE  LET n == names[Stations[s].first] IN
         /\ s \in Laned => n \in Lanes
         /\ s = "plan" => n = names["idea"]
         /\ s = "setup" => n = names["plan"]
         /\ s \in {"process", "review"} => n = names["task"]
BY StationsAre, BindingIs DEF Laned, Plan, SetupWorkspace, Process, Review

\* A station of the line takes one item of its subject's line, and no other one.
LEMMA LineTaken ==
  ASSUME NEW s \in DOMAIN Workers, NEW names \in Binding[s]
  PROVE  LET taken == Items(s, names, Stations[s].inputs)
             m == names[Stations[s].first] IN
         IF s \in Laned
         THEN \E k \in Line(m) : k \in taken /\ \A n : \A l \in Line(n) : l \in taken => l = k /\ n = m
         ELSE \A n : \A l \in Line(n) : l \notin taken
<1> USE StationsAre, SubjectIs, LineIs DEF Laned, States
<1>1. CASE s = "ideafy"
  BY <1>1, IdeafyItems
<1>2. CASE s = "plan"
  BY <1>2, PlanItems
<1>3. CASE s = "setup"
  <2>1. /\ Items(s, names, Stations[s].inputs) = {Item("plan", "init", names["plan"])}
        /\ names[Stations[s].first] = names["plan"] /\ s \in Laned
    BY <1>3, SetupItems
  <2> QED
    BY <2>1
<1>4. CASE s = "process"
  BY <1>4, ProcessItems
<1>5. CASE s = "review"
  BY <1>5, ReviewItems
<1> QED
  BY <1>1, <1>2, <1>3, <1>4, <1>5

\* It leaves at most one item of that line, and none of another.
LEMMA LinePut ==
  ASSUME NEW s \in DOMAIN Workers, NEW names \in Binding[s],
         NEW result \in Stations[s].results
  PROVE  LET put == Items(s, names, result)
             m == names[Stations[s].first] IN
         /\ \A n : \A l \in Line(n) : l \in put => s \in Laned /\ n = m
         /\ \A k, l \in Line(m) : k \in put /\ l \in put => k = l
<1> USE StationsAre, SubjectIs, LineIs DEF Laned, States
<1>1. CASE s = "ideafy"
  BY <1>1, IdeafyItems
<1>2. CASE s = "plan"
  BY <1>2, PlanItems
<1>3. CASE s = "setup"
  BY <1>3, SetupItems
<1>4. CASE s = "process"
  BY <1>4, ProcessItems
<1>5. CASE s = "review"
  BY <1>5, ReviewItems
<1> QED
  BY <1>1, <1>2, <1>3, <1>4, <1>5

\* A logical move takes a task and leaves it in another state.
LEMMA LineMoved ==
  ASSUME NEW s \in DOMAIN Moves, NEW names \in Binding[s],
         NEW result \in Stations[s].results
  PROVE  LET taken == Items(s, names, Stations[s].inputs)
             put == Items(s, names, result)
             m == names["task"] IN
         /\ \E k \in Line(m) :
              k \in taken /\ \A n : \A i \in Line(n) : i \in taken => i = k /\ n = m
         /\ \A n : \A i \in Line(n) : i \in put => i \notin taken /\ n = m
         /\ \A i, j \in Line(m) : i \in put /\ j \in put => i = j
<1> DEFINE taken == Items(s, names, Stations[s].inputs)
           put == Items(s, names, result)
           m == names["task"]
<1>1. PICK x, y \in States["task"] :
           /\ x # y
           /\ \/ taken = {Item("task", x, m)} /\ put = {Item("task", y, m)}
              \/ \E a : /\ taken = {Item("idea", "to-complete", a), Item("task", x, m)}
                        /\ put = {Item("idea", "complete", a), Item("task", y, m)}
  <2>1. {"init", "in-review", "to-complete", "complete", "failed"} \subseteq States["task"]
    BY DEF States
  <2>2. CASE s = "consume"
    BY <2>1, <2>2, MoveItems
  <2>3. CASE s = "execBreaker"
    BY <2>1, <2>3, MoveItems
  <2>4. CASE s = "reviewBreaker"
    BY <2>1, <2>4, MoveItems
  <2> QED
    BY <2>2, <2>3, <2>4, StationsAre
<1> HIDE DEF taken, put, m
<1>2. ASSUME NEW n, NEW i \in Line(n)
      PROVE  /\ i \in taken => i = Item("task", x, m) /\ n = m
             /\ i \in put => i = Item("task", y, m) /\ n = m
  BY <1>1, <1>2, LineIs
<1>3. Item("task", x, m) \in Line(m) /\ Item("task", x, m) \in taken
  BY <1>1, LineIs
<1>4. Item("task", x, m) # Item("task", y, m)
  BY <1>1 DEF Item
<1> QED
  BY <1>2, <1>3, <1>4 DEF taken, put, m

LEMMA LineKept ==
  ASSUME WorkTyping, NEW n \in Lanes, LineInv(n), Next
  PROVE  LineInv(n)'
<1>a. Line(n) \subseteq Token /\ \A k \in Line(n) : work[k] \in Nat
  BY LineTokens DEF WorkTyping
<1>1. ASSUME NEW m \in Lanes, NEW kind \in Kinds[m], Submit(m, kind)
      PROVE  LineInv(n)'
  <2>1. \A k \in Line(n) : work'[k] = IF k = Item(kind, "init", m) THEN work[k] + 1 ELSE work[k]
    BY <1>a, <1>1 DEF Submit, WorkTyping
  <2>2. UNCHANGED running /\ m \notin submitted /\ submitted' = submitted \cup {m}
    BY <1>1 DEF Submit
  <2>3. \A k \in Line(n) : k = Item(kind, "init", m) => n = m
    BY LineIs
  <2>4. CASE n = m
    BY <1>a, <2>1, <2>2, <2>4 DEF LineInv
  <2>5. CASE n # m
    BY <1>a, <2>1, <2>2, <2>3, <2>5 DEF LineInv
  <2> QED
    BY <2>4, <2>5
<1>2. CASE ThoughtRetrigger
  <2>1. \A k \in Line(n) : k # Item("thoughts", "init", Loopback)
    BY LineIs
  <2>2. \A k \in Line(n) : work'[k] = work[k]
    BY <1>a, <1>2, <2>1 DEF ThoughtRetrigger, WorkTyping
  <2> QED
    BY <1>2, <2>2 DEF ThoughtRetrigger, LineInv
<1>3. ASSUME NEW s \in DOMAIN Workers, NEW names \in Binding[s], Dispatch(s, names)
      PROVE  LineInv(n)'
  <2> DEFINE taken == Items(s, names, Stations[s].inputs)
             new == [station |-> s, names |-> names]
             m == names[Stations[s].first]
  <2>1. /\ \A k \in Line(n) : work'[k] = IF k \in taken THEN work[k] - 1 ELSE work[k]
        /\ running' = running \cup {new} /\ UNCHANGED submitted
    BY <1>a, <1>3 DEF Dispatch, Take
  <2>2. On(new, n) <=> s \in Laned /\ m = n
    BY DEF On, Subject
  <2>3. IF s \in Laned
        THEN \E k \in Line(m) : k \in taken /\ \A l \in Line(n) : l \in taken => l = k /\ n = m
        ELSE \A l \in Line(n) : l \notin taken
    BY LineTaken
  <2>4. \A k \in taken : work[k] > 0
    BY <1>3, PresentTaken, StationsAre DEF Dispatch
  <2> HIDE DEF taken, new, m
  <2>5. CASE s \in Laned /\ m = n
    <3>1. PICK k \in Line(n) : k \in taken /\ \A l \in Line(n) : l \in taken => l = k
      BY <2>3, <2>5
    <3>2. work[k] = 1 /\ work'[k] = 0
      BY <1>a, <2>1, <2>4, <3>1 DEF LineInv
    <3>3. \A l \in Line(n) : work'[l] = 0
      BY <1>a, <2>1, <3>1, <3>2 DEF LineInv
    <3>4. \A d \in running : ~On(d, n)
      BY <3>1, <3>2 DEF LineInv
    <3>5. n \in submitted
      BY <3>1, <3>2 DEF LineInv
    <3> QED
      BY <2>1, <3>3, <3>4, <3>5 DEF LineInv
  <2>6. CASE ~(s \in Laned /\ m = n)
    <3>1. \A k \in Line(n) : work'[k] = work[k]
      BY <2>1, <2>3, <2>6
    <3> QED
      BY <2>1, <2>2, <2>6, <3>1 DEF LineInv
  <2> QED
    BY <2>5, <2>6
<1>4. ASSUME NEW run \in running, Finish(run)
      PROVE  LineInv(n)'
  <2>1. run.station \in DOMAIN Workers /\ run.names \in Binding[run.station]
    BY RunHas DEF WorkTyping
  <2>2. PICK result \in Stations[run.station].results :
               work' = Put(work, run.station, run.names, result)
    BY <1>4 DEF Finish
  <2> DEFINE put == Items(run.station, run.names, result)
  <2>3. /\ \A k \in Line(n) : work'[k] = IF k \in put THEN work[k] + 1 ELSE work[k]
        /\ running' = running \ {run} /\ UNCHANGED submitted
    BY <1>a, <1>4, <2>2 DEF Finish, Put
  <2>4. /\ \A l \in Line(n) : l \in put => On(run, n)
        /\ On(run, n) => \A k, l \in Line(n) : k \in put /\ l \in put => k = l
    BY <2>1, LinePut DEF On, Subject
  <2> HIDE DEF put
  <2>5. CASE On(run, n)
    <3>1. /\ \A k \in Line(n) : work[k] = 0
          /\ \A d \in running' : ~On(d, n)
          /\ n \in submitted
      BY <2>3, <2>5 DEF LineInv
    <3> QED
      BY <2>3, <2>4, <2>5, <3>1 DEF LineInv
  <2>6. CASE ~On(run, n)
    BY <2>3, <2>4, <2>6 DEF LineInv
  <2> QED
    BY <2>5, <2>6
<1>5. ASSUME NEW s \in DOMAIN Moves, NEW names \in Binding[s], Move(s, names)
      PROVE  LineInv(n)'
  <2>1. PICK result \in Stations[s].results : work' = Put(Take(s, names), s, names, result)
    BY <1>5 DEF Move
  <2> DEFINE taken == Items(s, names, Stations[s].inputs)
             put == Items(s, names, result)
             m == names["task"]
  <2>2. /\ \A k \in Line(n) :
             work'[k] = (IF k \in taken THEN work[k] - 1 ELSE work[k])
                        + (IF k \in put THEN 1 ELSE 0)
        /\ UNCHANGED <<running, submitted>>
    BY <1>a, <1>5, <2>1 DEF Move, Put, Take
  <2>3. /\ \E k \in Line(m) :
             k \in taken /\ \A i \in Line(n) : i \in taken => i = k /\ n = m
        /\ \A i \in Line(n) : i \in put => i \notin taken /\ n = m
        /\ \A i, j \in Line(m) : i \in put /\ j \in put => i = j
    BY LineMoved
  <2>4. \A k \in taken : work[k] > 0
    BY <1>5, PresentTaken, StationsAre DEF Move
  <2> HIDE DEF taken, put, m
  <2>5. CASE m = n
    <3>1. PICK k \in Line(n) : k \in taken /\ \A i \in Line(n) : i \in taken => i = k
      BY <2>3, <2>5
    <3>2. /\ work[k] = 1 /\ n \in submitted
          /\ \A i \in Line(n) : i # k => work[i] = 0
          /\ \A d \in running : ~On(d, n)
      BY <1>a, <2>4, <3>1 DEF LineInv
    <3>3. \A i \in Line(n) : work'[i] = IF i \in put THEN 1 ELSE 0
      BY <1>a, <2>2, <2>3, <3>1, <3>2
    <3> QED
      BY <2>2, <2>3, <2>5, <3>2, <3>3 DEF LineInv
  <2>6. CASE m # n
    <3>1. \A i \in Line(n) : work'[i] = work[i]
      BY <1>a, <2>2, <2>3, <2>6
    <3> QED
      BY <2>2, <3>1 DEF LineInv
  <2> QED
    BY <2>5, <2>6
<1> QED
  BY <1>1, <1>2, <1>3, <1>4, <1>5 DEF Next

-----------------------------------------------------------------------------
(* A task, once there, stays; what is complete of a name has had one        *)

LEMMA WorkTaken ==
  ASSUME NEW s \in DOMAIN Workers, NEW names \in Binding[s], NEW n, NEW st
  PROVE  LET taken == Items(s, names, Stations[s].inputs) IN
         /\ Item("task", st, n) \in taken =>
              s \in {"process", "review"} /\ names["task"] = n /\ st # "complete"
         /\ Item("review", st, n) \in taken =>
              s = "review" /\ names["review"] = n /\ st = "init"
<1> USE StationsAre DEF Item
<1>1. CASE s = "ideafy"
  BY <1>1, IdeafyItems
<1>2. CASE s = "plan"
  BY <1>2, PlanItems
<1>3. CASE s = "setup"
  BY <1>3, SetupItems
<1>4. CASE s = "process"
  BY <1>4, ProcessItems
<1>5. CASE s = "review"
  BY <1>5, ReviewItems
<1> QED
  BY <1>1, <1>2, <1>3, <1>4, <1>5

LEMMA WorkPut ==
  ASSUME NEW s \in DOMAIN Workers, NEW names \in Binding[s],
         NEW result \in Stations[s].results, NEW n
  PROVE  LET put == Items(s, names, result) IN
         /\ s \in {"process", "review"} =>
              \E st \in States["task"] : Item("task", st, names["task"]) \in put
         /\ \A st : Item("review", st, n) \in put =>
              \/ s = "process" /\ names["task"] = n
              \/ s = "review" /\ names["review"] = n
         /\ Item("idea", "complete", n) \notin put
         /\ Item("plan", "complete", n) \in put => Item("task", "init", n) \in put
<1> USE StationsAre DEF Item, States
<1>1. CASE s = "ideafy"
  BY <1>1, IdeafyItems
<1>2. CASE s = "plan"
  BY <1>2, PlanItems
<1>3. CASE s = "setup"
  BY <1>3, SetupItems
<1>4. CASE s = "process"
  BY <1>4, ProcessItems
<1>5. CASE s = "review"
  BY <1>5, ReviewItems
<1> QED
  BY <1>1, <1>2, <1>3, <1>4, <1>5

LEMMA MoveTakesPuts ==
  ASSUME NEW s \in DOMAIN Moves, NEW names \in Binding[s],
         NEW result \in Stations[s].results, NEW n, NEW st
  PROVE  LET taken == Items(s, names, Stations[s].inputs)
             put == Items(s, names, result) IN
         /\ Item("task", st, n) \in taken => names["task"] = n /\ st # "complete"
         /\ \E end \in {"complete", "failed"} : Item("task", end, names["task"]) \in put
         /\ Item("review", st, n) \notin taken /\ Item("review", st, n) \notin put
         /\ Item("plan", "complete", n) \notin put
         /\ Item("idea", "complete", n) \in put => s = "consume" /\ names["idea"] = n
<1> USE StationsAre DEF Item
<1>1. CASE s = "consume"
  BY <1>1, MoveItems
<1>2. CASE s = "execBreaker"
  BY <1>2, MoveItems
<1>3. CASE s = "reviewBreaker"
  BY <1>3, MoveItems
<1> QED
  BY <1>1, <1>2, <1>3

\* What the actions do to the items, one by one.
LEMMA Dispatched ==
  ASSUME WorkTyping, NEW s \in DOMAIN Workers, NEW names \in Binding[s], Dispatch(s, names)
  PROVE  LET taken == Items(s, names, Stations[s].inputs) IN
         /\ \A k \in Token : work'[k] = IF k \in taken THEN work[k] - 1 ELSE work[k]
         /\ \A k \in taken : work[k] > 0
         /\ running' = running \cup {[station |-> s, names |-> names]}
BY PresentTaken, StationsAre DEF Dispatch, Take

LEMMA Finished ==
  ASSUME WorkTyping, NEW run \in running, Finish(run)
  PROVE  /\ run.station \in DOMAIN Workers /\ run.names \in Binding[run.station]
         /\ running' = running \ {run}
         /\ \E result \in Stations[run.station].results :
              \A k \in Token :
                work'[k] = IF k \in Items(run.station, run.names, result)
                           THEN work[k] + 1 ELSE work[k]
BY RunHas DEF Finish, Put, WorkTyping

LEMMA Moved ==
  ASSUME WorkTyping, NEW s \in DOMAIN Moves, NEW names \in Binding[s], Move(s, names)
  PROVE  LET taken == Items(s, names, Stations[s].inputs) IN
         /\ \A k \in taken : work[k] > 0
         /\ UNCHANGED running
         /\ s = "consume" => names["idea"] = names["task"]
         /\ \E result \in Stations[s].results :
              \A k \in Token :
                work'[k] = (IF k \in taken THEN work[k] - 1 ELSE work[k])
                           + (IF k \in Items(s, names, result) THEN 1 ELSE 0)
<1>1. PICK result \in Stations[s].results : work' = Put(Take(s, names), s, names, result)
  BY DEF Move
<1>2. \A k \in Token :
        work'[k] = (IF k \in Items(s, names, Stations[s].inputs) THEN work[k] - 1 ELSE work[k])
                   + (IF k \in Items(s, names, result) THEN 1 ELSE 0)
  BY <1>1 DEF Put, Take, WorkTyping
<1>3. s = "consume" => names["idea"] = names["task"]
  BY DEF Move, Guard
<1>4. UNCHANGED running /\ \A k \in Items(s, names, Stations[s].inputs) : work[k] > 0
  BY PresentTaken, StationsAre DEF Move
<1> QED
  BY <1>2, <1>3, <1>4

\* Other steps only add items in their first state.
LEMMA Added ==
  ASSUME WorkTyping,
         ThoughtRetrigger \/ \E m \in Lanes : \E kind \in Kinds[m] : Submit(m, kind)
  PROVE  /\ UNCHANGED running
         /\ \A k \in Token : work'[k] = work[k] \/ (work'[k] = work[k] + 1 /\ k.state = "init"
                                                    /\ k.type # "review")
<1>1. CASE ThoughtRetrigger
  BY <1>1 DEF ThoughtRetrigger, WorkTyping, Item
<1>2. ASSUME NEW m \in Lanes, NEW kind \in Kinds[m], Submit(m, kind)
      PROVE  /\ UNCHANGED running
             /\ \A k \in Token : \/ work'[k] = work[k]
                                 \/ /\ work'[k] = work[k] + 1 /\ k.state = "init"
                                    /\ k.type # "review"
  <2>1. kind # "review"
    BY FactoryAssumption DEF Lanes
  <2> QED
    BY <1>2, <2>1 DEF Submit, WorkTyping, Item
<1> QED
  BY <1>1, <1>2

AtTask(run, n) == run.station \in {"process", "review"} /\ run.names["task"] = n
AtReview(run, n) == run.station = "review" /\ run.names["review"] = n

TaskExists(n) ==
  \/ \E st \in States["task"] : work[Item("task", st, n)] > 0
  \/ \E run \in running : AtTask(run, n)

LEMMA LaneTokens ==
  ASSUME NEW n \in Lanes
  PROVE  /\ \A st \in States["task"] : Item("task", st, n) \in Token
         /\ \A st \in States["review"] : Item("review", st, n) \in Token
         /\ \A st \in States["idea"] : Item("idea", st, n) \in Token
         /\ \A st \in States["plan"] : Item("plan", st, n) \in Token
BY TokenIs DEF States, Named

LEMMA TaskStays ==
  ASSUME WorkTyping, NEW n \in Lanes, TaskExists(n), Next
  PROVE  TaskExists(n)'
<1>a. \A st \in States["task"] : Item("task", st, n) \in Token /\ work[Item("task", st, n)] \in Nat
  BY LaneTokens DEF WorkTyping
<1>1. CASE ThoughtRetrigger \/ \E m \in Lanes : \E kind \in Kinds[m] : Submit(m, kind)
  BY <1>a, <1>1, Added DEF TaskExists
<1>2. ASSUME NEW s \in DOMAIN Workers, NEW names \in Binding[s], Dispatch(s, names)
      PROVE  TaskExists(n)'
  <2> DEFINE taken == Items(s, names, Stations[s].inputs)
             new == [station |-> s, names |-> names]
  <2>1. \A k \in Token : work'[k] = IF k \in taken THEN work[k] - 1 ELSE work[k]
    BY <1>2, Dispatched
  <2>2. running' = running \cup {new}
    BY <1>2, Dispatched
  <2>3. \A st : Item("task", st, n) \in taken => AtTask(new, n)
    BY WorkTaken DEF AtTask
  <2> HIDE DEF taken, new
  <2> QED
    BY <1>a, <2>1, <2>2, <2>3 DEF TaskExists
<1>3. ASSUME NEW run \in running, Finish(run)
      PROVE  TaskExists(n)'
  <2>1. PICK result \in Stations[run.station].results :
          \A k \in Token :
            work'[k] = IF k \in Items(run.station, run.names, result)
                       THEN work[k] + 1 ELSE work[k]
    BY <1>3, Finished
  <2> DEFINE put == Items(run.station, run.names, result)
  <2>2. running' = running \ {run}
    BY <1>3, Finished
  <2>3. AtTask(run, n) => \E st \in States["task"] : Item("task", st, n) \in put
    BY <1>3, Finished, WorkPut DEF AtTask
  <2> HIDE DEF put
  <2> QED
    BY <1>a, <2>1, <2>2, <2>3 DEF TaskExists, put
<1>4. ASSUME NEW s \in DOMAIN Moves, NEW names \in Binding[s], Move(s, names)
      PROVE  TaskExists(n)'
  <2> DEFINE taken == Items(s, names, Stations[s].inputs)
  <2>1. UNCHANGED running
    BY <1>4, Moved
  <2>2. PICK result \in Stations[s].results :
          \A k \in Token :
            work'[k] = (IF k \in taken THEN work[k] - 1 ELSE work[k])
                       + (IF k \in Items(s, names, result) THEN 1 ELSE 0)
    BY <1>4, Moved
  <2> DEFINE put == Items(s, names, result)
  <2>3. \A st : Item("task", st, n) \in taken => names["task"] = n
    BY MoveTakesPuts
  <2>4. names["task"] = n => \E st \in States["task"] : Item("task", st, n) \in put
    BY MoveTakesPuts DEF States
  <2>5. \A k \in taken : work[k] > 0
    BY <1>4, Moved
  <2> HIDE DEF taken, put
  <2> QED
    BY <1>a, <2>1, <2>2, <2>3, <2>4, <2>5 DEF TaskExists, put
<1> QED
  BY <1>1, <1>2, <1>3, <1>4 DEF Next

\* Of a name with an idea, a plan or a review that is complete, or any review at
\* all, there is a task.
BornInv(n) ==
  /\ work[Item("idea", "complete", n)] > 0 => TaskExists(n)
  /\ work[Item("plan", "complete", n)] > 0 => TaskExists(n)
  /\ \A st \in States["review"] : work[Item("review", st, n)] > 0 => TaskExists(n)
  /\ \A run \in running : AtReview(run, n) => TaskExists(n)

\* The task of a name is complete, and its reviews are.
Settled(n) ==
  /\ work[Item("task", "complete", n)] > 0
  /\ \A st \in States["review"] \ {"complete"} : work[Item("review", st, n)] = 0
  /\ \A run \in running : ~AtReview(run, n)

LEMMA BornKept ==
  ASSUME WorkTyping, NEW n \in Lanes, BornInv(n), Next
  PROVE  BornInv(n)'
<1> SUFFICES ASSUME ~TaskExists(n)
             PROVE  BornInv(n)'
  BY TaskStays DEF BornInv
<1> USE DEF States
<1>a. /\ \A st \in States["task"] : Item("task", st, n) \in Token
      /\ \A st \in States["review"] :
           Item("review", st, n) \in Token /\ work[Item("review", st, n)] = 0
      /\ Item("idea", "complete", n) \in Token /\ work[Item("idea", "complete", n)] = 0
      /\ Item("plan", "complete", n) \in Token /\ work[Item("plan", "complete", n)] = 0
      /\ \A run \in running : ~AtReview(run, n) /\ ~AtTask(run, n)
  BY LaneTokens DEF WorkTyping, BornInv, TaskExists
<1>b. work \in [Token -> Nat]
  BY DEF WorkTyping
<1>1. CASE ThoughtRetrigger \/ \E m \in Lanes : \E kind \in Kinds[m] : Submit(m, kind)
  BY <1>a, <1>1, Added DEF BornInv, Item
<1>2. ASSUME NEW s \in DOMAIN Workers, NEW names \in Binding[s], Dispatch(s, names)
      PROVE  BornInv(n)'
  <2> DEFINE taken == Items(s, names, Stations[s].inputs)
             new == [station |-> s, names |-> names]
  <2>1. /\ \A k \in Token : work'[k] = IF k \in taken THEN work[k] - 1 ELSE work[k]
        /\ \A k \in taken : work[k] > 0
    BY <1>2, Dispatched
  <2>2. running' = running \cup {new}
    BY <1>2, Dispatched
  <2>3. AtReview(new, n) => Item("review", "init", n) \in taken
    BY ReviewItems DEF AtReview
  <2> HIDE DEF taken, new
  <2> QED
    BY <1>a, <1>b, <2>1, <2>2, <2>3 DEF BornInv
<1>3. ASSUME NEW run \in running, Finish(run)
      PROVE  BornInv(n)'
  <2>1. PICK result \in Stations[run.station].results :
          \A k \in Token :
            work'[k] = IF k \in Items(run.station, run.names, result)
                       THEN work[k] + 1 ELSE work[k]
    BY <1>3, Finished
  <2> DEFINE put == Items(run.station, run.names, result)
  <2>2. running' = running \ {run}
    BY <1>3, Finished
  <2>3. /\ \A st : Item("review", st, n) \in put => AtTask(run, n) \/ AtReview(run, n)
        /\ Item("idea", "complete", n) \notin put
        /\ Item("plan", "complete", n) \in put => Item("task", "init", n) \in put
    BY <1>3, Finished, WorkPut DEF AtTask, AtReview
  <2> HIDE DEF put
  <2>4. Item("task", "init", n) \in put => TaskExists(n)'
    BY <1>a, <1>b, <2>1 DEF TaskExists, put
  <2> QED
    BY <1>a, <1>b, <2>1, <2>2, <2>3, <2>4 DEF BornInv, put
<1>4. ASSUME NEW s \in DOMAIN Moves, NEW names \in Binding[s], Move(s, names)
      PROVE  BornInv(n)'
  <2> DEFINE taken == Items(s, names, Stations[s].inputs)
  <2>1. UNCHANGED running /\ \A k \in taken : work[k] > 0
    BY <1>4, Moved
  <2>2. PICK result \in Stations[s].results :
          \A k \in Token :
            work'[k] = (IF k \in taken THEN work[k] - 1 ELSE work[k])
                       + (IF k \in Items(s, names, result) THEN 1 ELSE 0)
    BY <1>4, Moved
  <2> DEFINE put == Items(s, names, result)
  <2>3. /\ \A st : Item("review", st, n) \notin put
        /\ Item("plan", "complete", n) \notin put
    BY MoveTakesPuts
  <2>4. Item("idea", "complete", n) \in put => names["task"] = n
    <3>1. s = "consume" => names["idea"] = names["task"]
      BY <1>4, Moved
    <3>2. Item("idea", "complete", n) \in put => s = "consume" /\ names["idea"] = n
      BY MoveTakesPuts
    <3> QED
      BY <3>1, <3>2
  <2>5. PICK end \in {"complete", "failed"} : Item("task", end, names["task"]) \in put
    BY MoveTakesPuts
  <2> HIDE DEF taken, put
  <2>6. names["task"] = n => TaskExists(n)'
    <3>1. ASSUME names["task"] = n
          PROVE  Item("task", end, n) \in Token /\ work'[Item("task", end, n)] > 0
      BY <1>a, <1>b, <2>1, <2>2, <2>5, <3>1 DEF put
    <3> QED
      BY <3>1 DEF TaskExists
  <2> QED
    BY <1>a, <1>b, <2>1, <2>2, <2>3, <2>4, <2>6 DEF BornInv, put
<1> QED
  BY <1>1, <1>2, <1>3, <1>4 DEF Next

\* The work of a settled name is over for good.
LEMMA SettledStays ==
  ASSUME WorkTyping, NEW n \in Lanes, LineInv(n), Settled(n), Next
  PROVE  Settled(n)'
<1> USE DEF States
<1>a. /\ Item("task", "complete", n) \in Token
      /\ \A st \in States["review"] : Item("review", st, n) \in Token
  BY LaneTokens
<1>b. work \in [Token -> Nat]
  BY DEF WorkTyping
<1>c. \A run \in running : ~AtTask(run, n) /\ ~AtReview(run, n)
  <2>1. Item("task", "complete", n) \in Line(n)
    BY LineIs
  <2>2. ASSUME NEW run \in running, AtTask(run, n)
        PROVE  On(run, n)
    BY <2>2, RunHas, SubjectIs, StationsAre DEF AtTask, On, Subject, Laned, WorkTyping
  <2> QED
    BY <2>1, <2>2 DEF LineInv, Settled
<1>1. CASE ThoughtRetrigger \/ \E m \in Lanes : \E kind \in Kinds[m] : Submit(m, kind)
  BY <1>a, <1>b, <1>1, Added DEF Settled, Item
<1>2. ASSUME NEW s \in DOMAIN Workers, NEW names \in Binding[s], Dispatch(s, names)
      PROVE  Settled(n)'
  <2> DEFINE taken == Items(s, names, Stations[s].inputs)
             new == [station |-> s, names |-> names]
  <2>1. /\ \A k \in Token : work'[k] = IF k \in taken THEN work[k] - 1 ELSE work[k]
        /\ \A k \in taken : work[k] > 0
    BY <1>2, Dispatched
  <2>2. running' = running \cup {new}
    BY <1>2, Dispatched
  <2>3. AtReview(new, n) => Item("review", "init", n) \in taken
    BY ReviewItems DEF AtReview
  <2>4. Item("task", "complete", n) \notin taken
    BY WorkTaken
  <2> HIDE DEF taken, new
  <2> QED
    BY <1>a, <1>b, <2>1, <2>2, <2>3, <2>4 DEF Settled
<1>3. ASSUME NEW run \in running, Finish(run)
      PROVE  Settled(n)'
  <2>1. PICK result \in Stations[run.station].results :
          \A k \in Token :
            work'[k] = IF k \in Items(run.station, run.names, result)
                       THEN work[k] + 1 ELSE work[k]
    BY <1>3, Finished
  <2> DEFINE put == Items(run.station, run.names, result)
  <2>2. running' = running \ {run}
    BY <1>3, Finished
  <2>3. \A st : Item("review", st, n) \in put => AtTask(run, n) \/ AtReview(run, n)
    BY <1>3, Finished, WorkPut DEF AtTask, AtReview
  <2> HIDE DEF put
  <2> QED
    BY <1>a, <1>b, <1>c, <2>1, <2>2, <2>3 DEF Settled, put
<1>4. ASSUME NEW s \in DOMAIN Moves, NEW names \in Binding[s], Move(s, names)
      PROVE  Settled(n)'
  <2> DEFINE taken == Items(s, names, Stations[s].inputs)
  <2>1. UNCHANGED running /\ \A k \in taken : work[k] > 0
    BY <1>4, Moved
  <2>2. PICK result \in Stations[s].results :
          \A k \in Token :
            work'[k] = (IF k \in taken THEN work[k] - 1 ELSE work[k])
                       + (IF k \in Items(s, names, result) THEN 1 ELSE 0)
    BY <1>4, Moved
  <2> DEFINE put == Items(s, names, result)
  <2>3. /\ \A st : Item("review", st, n) \notin put /\ Item("review", st, n) \notin taken
        /\ Item("task", "complete", n) \notin taken
    BY MoveTakesPuts
  <2> HIDE DEF taken, put
  <2> QED
    BY <1>a, <1>b, <2>1, <2>2, <2>3 DEF Settled, put
<1> QED
  BY <1>1, <1>2, <1>3, <1>4 DEF Next

\* A complete task stays complete.
LEMMA DoneStays ==
  ASSUME WorkTyping, NEW n \in Lanes, work[Item("task", "complete", n)] > 0, Next
  PROVE  work'[Item("task", "complete", n)] > 0
<1> USE DEF States
<1>a. Item("task", "complete", n) \in Token /\ work[Item("task", "complete", n)] \in Nat
  BY LaneTokens DEF WorkTyping
<1>1. CASE ThoughtRetrigger \/ \E m \in Lanes : \E kind \in Kinds[m] : Submit(m, kind)
  BY <1>a, <1>1, Added
<1>2. ASSUME NEW s \in DOMAIN Workers, NEW names \in Binding[s], Dispatch(s, names)
      PROVE  work'[Item("task", "complete", n)] > 0
  BY <1>a, <1>2, Dispatched, WorkTaken
<1>3. ASSUME NEW run \in running, Finish(run)
      PROVE  work'[Item("task", "complete", n)] > 0
  BY <1>a, <1>3, Finished
<1>4. ASSUME NEW s \in DOMAIN Moves, NEW names \in Binding[s], Move(s, names)
      PROVE  work'[Item("task", "complete", n)] > 0
  BY <1>a, <1>4, Moved, MoveTakesPuts
<1> QED
  BY <1>1, <1>2, <1>3, <1>4 DEF Next

-----------------------------------------------------------------------------
(* What the pages read so far say, and that it is so still                 *)

\* The report says nothing of the lane that is not so any more: a complete item
\* means a task; read past the tasks, that it is complete; read past the reviews,
\* that nothing is left to do.
ReportInv ==
  /\ report.terminal => TaskExists(Lane)
  /\ report.lane >= 3 /\ report.terminal => work[Item("task", "complete", Lane)] > 0
  /\ report.lane = 3 => report.terminal
  /\ report.lane = 4 /\ report.terminal => Settled(Lane)
  /\ report.end => report.lane = 4 /\ report.terminal /\ Len(moves) < MaxMoves

ReportTyping ==
  report \in [lane : 0..Len(Created), drain : 0..Len(Created), end : BOOLEAN,
              terminal : BOOLEAN, initial : BOOLEAN, drained : BOOLEAN]

LEMMA CreatedIs ==
  /\ Len(Created) = 4 /\ DOMAIN Created = 1..4
  /\ Created[1] = "idea" /\ Created[2] = "plan"
  /\ Created[3] = "task" /\ Created[4] = "review"
  /\ Range(Created) = {"idea", "plan", "task", "review"}
BY DEF Created, Range

\* What is listed is at rest, or at work in the state it was taken from.
LEMMA RestIsListed ==
  ASSUME NEW t, NEW n, NEW st \in States[t], work[Item(t, st, n)] > 0
  PROVE  st \in Listed(t, n)
BY DEF Listed

LEMMA WorkIsListed ==
  ASSUME WorkTyping, NEW run \in running, NEW n
  PROVE  /\ AtTask(run, n) => \E st \in {"init", "in-review"} : st \in Listed("task", n)
         /\ AtReview(run, n) => "init" \in Listed("review", n)
<1>1. run.station \in DOMAIN Workers /\ run.names \in Binding[run.station]
  BY RunHas DEF WorkTyping
<1> DEFINE taken == Items(run.station, run.names, Stations[run.station].inputs)
<1>2. AtTask(run, n) => \E st \in {"init", "in-review"} : Item("task", st, n) \in taken
  <2>1. CASE run.station = "process"
    BY <1>1, <2>1, ProcessItems DEF AtTask
  <2>2. CASE run.station = "review"
    BY <1>1, <2>2, ReviewItems DEF AtTask
  <2> QED
    BY <2>1, <2>2 DEF AtTask
<1>3. AtReview(run, n) => Item("review", "init", n) \in taken
  BY <1>1, ReviewItems DEF AtReview
<1> QED
  BY <1>2, <1>3 DEF Listed, States

LEMMA CompleteRests ==
  ASSUME WorkTyping, NEW t, NEW n, "complete" \in Listed(t, n)
  PROVE  work[Item(t, "complete", n)] > 0
<1> SUFFICES ASSUME NEW run \in running
             PROVE  Item(t, "complete", n) \notin
                      Items(run.station, run.names, Stations[run.station].inputs)
  BY DEF Listed
<1>1. run.station \in DOMAIN Workers /\ run.names \in Binding[run.station]
  BY RunHas DEF WorkTyping
<1> USE <1>1, StationsAre DEF Item
<1>2. CASE run.station = "ideafy"
  BY <1>2, IdeafyItems
<1>3. CASE run.station = "plan"
  BY <1>3, PlanItems
<1>4. CASE run.station = "setup"
  BY <1>4, SetupItems
<1>5. CASE run.station = "process"
  BY <1>5, ProcessItems
<1>6. CASE run.station = "review"
  BY <1>6, ReviewItems
<1> QED
  BY <1>2, <1>3, <1>4, <1>5, <1>6

LEMMA TerminalHasTask ==
  ASSUME WorkTyping, NEW n \in Lanes, BornInv(n),
         NEW t \in {"idea", "plan", "task", "review"}, "complete" \in Listed(t, n)
  PROVE  TaskExists(n)
BY CompleteRests DEF BornInv, TaskExists, States

LEMMA ReadTaskDone ==
  ASSUME WorkTyping, NEW n, TaskExists(n), Listed("task", n) \ {"complete"} = {}
  PROVE  work[Item("task", "complete", n)] > 0
BY RestIsListed, WorkIsListed DEF TaskExists

LEMMA ReadSettled ==
  ASSUME WorkTyping, NEW n \in Lanes, work[Item("task", "complete", n)] > 0,
         Listed("review", n) \ {"complete"} = {}
  PROVE  Settled(n)
<1>1. ASSUME NEW st \in States["review"] \ {"complete"}
      PROVE  work[Item("review", st, n)] = 0
  <2>1. ~(work[Item("review", st, n)] > 0)
    BY RestIsListed
  <2>2. work[Item("review", st, n)] \in Nat
    BY LaneTokens DEF WorkTyping
  <2> QED
    BY <2>1, <2>2
<1>2. \A run \in running : ~AtReview(run, n)
  BY WorkIsListed
<1> QED
  BY <1>1, <1>2 DEF Settled

\* A settled lane is what the report takes it for.
LEMMA SettledIsListed ==
  ASSUME WorkTyping, LineInv(Lane), Settled(Lane)
  PROVE  LaneSettled
<1>1. Lane \in Lanes
  BY DrainAssumption
<1>2. Listed("task", Lane) = {"complete"}
  <2>1. "complete" \in Listed("task", Lane)
    BY RestIsListed DEF Settled, States
  <2>2. ASSUME NEW st \in Listed("task", Lane)
        PROVE  st = "complete"
    <3>1. CASE work[Item("task", st, Lane)] > 0
      <4>1. Item("task", st, Lane) \in Line(Lane) /\ Item("task", "complete", Lane) \in Line(Lane)
        BY LineIs DEF Listed, States
      <4>2. Item("task", st, Lane) = Item("task", "complete", Lane)
        BY <3>1, <4>1 DEF LineInv, Settled
      <4> QED
        BY <4>2 DEF Item
    <3>2. ASSUME NEW run \in running,
                 Item("task", st, Lane) \in
                   Items(run.station, run.names, Stations[run.station].inputs)
          PROVE  FALSE
      <4>1. run.station \in DOMAIN Workers /\ run.names \in Binding[run.station]
        BY RunHas DEF WorkTyping
      <4>2. run.station \in {"process", "review"} /\ run.names["task"] = Lane
        BY <3>2, <4>1, WorkTaken
      <4>3. On(run, Lane)
        BY <4>1, <4>2, SubjectIs, StationsAre DEF On, Subject, Laned
      <4>4. Item("task", "complete", Lane) \in Line(Lane)
        BY LineIs DEF States
      <4> QED
        BY <4>3, <4>4 DEF LineInv, Settled
    <3> QED
      BY <3>1, <3>2 DEF Listed
  <2> QED
    BY <2>1, <2>2
<1>3. ASSUME NEW st \in Listed("review", Lane)
      PROVE  st = "complete"
  <2>1. CASE work[Item("review", st, Lane)] > 0
    BY <2>1 DEF Settled, Listed
  <2>2. ASSUME NEW run \in running,
               Item("review", st, Lane) \in
                 Items(run.station, run.names, Stations[run.station].inputs)
        PROVE  FALSE
    <3>1. run.station \in DOMAIN Workers /\ run.names \in Binding[run.station]
      BY RunHas DEF WorkTyping
    <3>2. AtReview(run, Lane)
      BY <2>2, <3>1, WorkTaken DEF AtReview
    <3> QED
      BY <3>2 DEF Settled
  <2> QED
    BY <2>1, <2>2 DEF Listed
<1> QED
  BY <1>2, <1>3, CreatedIs DEF LaneSettled, TerminalComplete, Unfinished

LEMMA ReadKept ==
  ASSUME WorkTyping, BornInv(Lane), ReportTyping, ReportInv, ReadPage
  PROVE  ReportInv' /\ ReportTyping'
<1>1. PICK lane \in report.lane..4, drain \in 0..4, end \in BOOLEAN :
        /\ report' = Read(lane, drain, end)
        /\ end => lane = 4
        /\ lane = 3 => report.lane = 3 \/ Listed("task", Lane) # {}
  <2>1. report.lane \in 0..4 /\ report.drain \in 0..4
    BY CreatedIs DEF ReportTyping
  <2>2. CASE report' = Read(Len(Created), Len(Created), TRUE)
    <3>1. report' = Read(4, 4, TRUE) /\ 4 \in report.lane..4 /\ 4 \in 0..4 /\ 4 # 3
      BY <2>1, <2>2, CreatedIs
    <3> QED
      BY <3>1, Zenon
  <2>3. ASSUME NEW lane \in PageEnds(report.lane, Lane), NEW drain \in PageEnds(report.drain, Drain),
               report' = Read(lane, drain, FALSE)
        PROVE  /\ lane \in report.lane..4 /\ drain \in 0..4
               /\ lane = 3 => report.lane = 3 \/ Listed("task", Lane) # {}
    BY <2>1, CreatedIs DEF PageEnds
  <2> QED
    BY <2>2, <2>3 DEF ReadPage
<1> DEFINE types == Types(report.lane, lane)
           row == Evidence(lane, drain, end)
<1>2. UNCHANGED <<work, running, moves>> /\ Len(moves) < MaxMoves
  BY DEF ReadPage, vars
<1>3. CASE report' = NoReport
  BY <1>3, CreatedIs DEF NoReport, ReportInv, ReportTyping
<1>4. CASE /\ report' = row
           /\ ~Unfinished(types)
           /\ end => ConsumeOrComplete(row)
  <2>1. /\ report'.lane = lane /\ report'.end = end
        /\ report'.terminal = (report.terminal \/ TerminalComplete(types, Lane))
    BY <1>4 DEF Evidence
  <2>2. ReportTyping'
    BY <1>1, <1>4, CreatedIs DEF Evidence, ReportTyping
  <2>3. /\ report.lane \in 0..4 /\ lane \in 0..4 /\ lane >= report.lane
        /\ report.lane < 3 /\ lane >= 3 => "task" \in types
        /\ report.lane < 4 /\ lane = 4 => "review" \in types
        /\ report.lane = 4 => types = {}
        /\ types \subseteq {"idea", "plan", "task", "review"}
    BY <1>1, CreatedIs DEF ReportTyping, Types
  <2> HIDE DEF types, row
  <2>4. report'.terminal => TaskExists(Lane)
    BY <2>1, <2>3, TerminalHasTask, DrainAssumption DEF ReportInv, TerminalComplete
  <2>5. /\ "task" \in types => Listed("task", Lane) \ {"complete"} = {}
        /\ "review" \in types => Listed("review", Lane) \ {"complete"} = {}
    BY <1>4 DEF Unfinished
  <2>6. report.lane = 4 => report'.terminal = report.terminal
    BY <2>1, <2>3 DEF TerminalComplete, ReportTyping
  <2>7. lane >= 3 /\ report'.terminal => work[Item("task", "complete", Lane)] > 0
    <3>1. CASE report.lane < 3
      BY <2>3, <2>4, <2>5, <3>1, ReadTaskDone
    <3>2. CASE report.lane = 3
      BY <3>2 DEF ReportInv
    <3>3. CASE report.lane = 4
      <4>1. report.lane >= 3
        BY <3>3
      <4> QED
        BY <2>6, <3>3, <4>1, Zenon DEF ReportInv
    <3> QED
      BY <2>3, <3>1, <3>2, <3>3
  <2>8. lane = 3 => report'.terminal
    <3>1. CASE report.lane = 3
      BY <2>1, <3>1 DEF ReportInv
    <3>2. CASE lane = 3 /\ report.lane < 3
      <4>1. "complete" \in Listed("task", Lane)
        BY <1>1, <2>3, <2>5, <3>2
      <4>2. TerminalComplete(types, Lane)
        BY <2>3, <3>2, <4>1 DEF TerminalComplete
      <4> QED
        BY <2>1, <4>2, Zenon
    <3> QED
      BY <2>3, <3>1, <3>2
  <2>9. lane = 4 /\ report'.terminal => Settled(Lane)
    <3>1. CASE report.lane = 4
      BY <2>6, <3>1 DEF ReportInv
    <3>2. CASE report.lane < 4
      BY <2>3, <2>5, <2>7, <3>2, ReadSettled, DrainAssumption
    <3> QED
      BY <2>3, <3>1, <3>2
  <2>10. end => lane = 4 /\ report'.terminal
    BY <1>1, <1>4 DEF ConsumeOrComplete
  <2> QED
    BY <1>2, <2>1, <2>2, <2>4, <2>7, <2>8, <2>9, <2>10 DEF ReportInv, TaskExists, Settled
<1> QED
  BY <1>1, <1>3, <1>4 DEF Read

\* The report on a step of the factory: what it says stays so.
LEMMA ReportStays ==
  ASSUME WorkTyping, LineInv(Lane), ReportInv, Next, UNCHANGED <<report, moves>>
  PROVE  ReportInv'
<1>1. Lane \in Lanes
  BY DrainAssumption
<1>2. TaskExists(Lane) => TaskExists(Lane)'
  BY <1>1, TaskStays
<1>3. work[Item("task", "complete", Lane)] > 0 => work'[Item("task", "complete", Lane)] > 0
  BY <1>1, DoneStays
<1>4. Settled(Lane) => Settled(Lane)'
  BY <1>1, SettledStays
<1> QED
  BY <1>2, <1>3, <1>4 DEF ReportInv

LEMMA NoReportInv ==
  ASSUME report' = NoReport
  PROVE  ReportInv' /\ ReportTyping'
BY CreatedIs DEF NoReport, ReportInv, ReportTyping

-----------------------------------------------------------------------------
(* The move of the drain idea                                              *)

MovesTyping == moves \in Seq(Status) /\ Len(moves) <= MaxMoves

LEMMA MovesBounded ==
  ASSUME MovesTyping
  PROVE  moves \in BoundedSeq(Status, MaxMoves)
<1>1. moves \in [1..Len(moves) -> Status] /\ Len(moves) \in 0..MaxMoves
  BY DrainAssumption DEF MovesTyping
<1> QED
  BY <1>1 DEF BoundedSeq, SeqOf

LEMMA MoveAppends ==
  ASSUME MovesTyping, Len(moves) < MaxMoves, MoveDrain
  PROVE  MovesTyping'
<1>1. \E status \in Status : moves' = Append(moves, status)
  BY DEF MoveDrain, Status
<1> QED
  BY <1>1, DrainAssumption DEF MovesTyping

\* It touches the ideas of the drain name alone, and adds to the complete one only.
LEMMA DrainMoved ==
  ASSUME WorkTyping, MoveDrain
  PROVE  /\ work' \in [Token -> Nat]
         /\ \A k \in Token : k.type # "idea" \/ k.name # Drain => work'[k] = work[k]
         /\ \A st \in States["idea"] \ {"complete"} :
              work'[Item("idea", st, Drain)] <= work[Item("idea", st, Drain)]
         /\ UNCHANGED <<running, visits, submitted, cron, broken, merged>>
<1>1. Drain \in Lanes
  BY DrainAssumption
<1>2. work \in [Token -> Nat]
  BY DEF WorkTyping
<1>3. \A st \in States["idea"] : Item("idea", st, Drain) \in Token
  BY <1>1, LaneTokens
<1>4. Item("idea", "complete", Drain) \in Token
  BY <1>3 DEF States
<1>5. ASSUME NEW s \in States["idea"], work[Item("idea", s, Drain)] > 0,
             work' = [work EXCEPT ![Item("idea", s, Drain)] = @ - 1,
                                  ![Item("idea", "complete", Drain)] = @ + 1]
      PROVE  /\ work' \in [Token -> Nat]
             /\ \A k \in Token : k.type # "idea" \/ k.name # Drain => work'[k] = work[k]
             /\ \A st \in States["idea"] \ {"complete"} :
                  work'[Item("idea", st, Drain)] <= work[Item("idea", st, Drain)]
  <2> DEFINE from == Item("idea", s, Drain)
             to == Item("idea", "complete", Drain)
  <2>1. from \in Token /\ to \in Token /\ work[from] > 0
        /\ work' = [work EXCEPT ![from] = @ - 1, ![to] = @ + 1]
    BY <1>3, <1>4, <1>5
  <2>2. \A k \in Token : k.type # "idea" \/ k.name # Drain => k # from /\ k # to
    BY DEF Item
  <2>3. \A st \in States["idea"] \ {"complete"} : Item("idea", st, Drain) # to
    BY DEF Item
  <2> HIDE DEF from, to
  <2>4. work' \in [Token -> Nat]
    BY <1>2, <2>1
  <2>5. \A k \in Token : k # to => work'[k] <= work[k] /\ (k # from => work'[k] = work[k])
    BY <1>2, <2>1
  <2> QED
    BY <1>3, <2>2, <2>3, <2>4, <2>5
<1>6. ASSUME work' = work
      PROVE  /\ work' \in [Token -> Nat]
             /\ \A k \in Token : k.type # "idea" \/ k.name # Drain => work'[k] = work[k]
             /\ \A st \in States["idea"] \ {"complete"} :
                  work'[Item("idea", st, Drain)] <= work[Item("idea", st, Drain)]
  <2>1. \A st \in States["idea"] : work[Item("idea", st, Drain)] \in Nat
    BY <1>2, <1>3
  <2> QED
    BY <1>2, <1>6, <2>1
<1>7. UNCHANGED <<running, visits, submitted, cron, broken, merged>>
  BY DEF MoveDrain
<1> QED
  BY <1>5, <1>6, <1>7 DEF MoveDrain

\* So the line of every name is kept, and nothing of another name is completed.
LEMMA DrainKeeps ==
  ASSUME WorkTyping, MoveDrain, \A n \in Lanes : LineInv(n), BornInv(Lane)
  PROVE  /\ WorkTyping'
         /\ \A n \in Lanes : LineInv(n)'
         /\ BornInv(Lane)'
<1>1. WorkTyping'
  BY DrainMoved DEF WorkTyping
<1>2. ASSUME NEW n \in Lanes
      PROVE  LineInv(n)'
  <2>1. \A k \in Line(n) : work'[k] \in Nat /\ work[k] \in Nat /\ work'[k] <= work[k]
    <3> SUFFICES ASSUME NEW k \in Line(n)
                 PROVE  work'[k] \in Nat /\ work[k] \in Nat /\ work'[k] <= work[k]
      OBVIOUS
    <3>1. k \in Token /\ work'[k] \in Nat /\ work[k] \in Nat
      BY LineTokens, DrainMoved DEF WorkTyping
    <3>2. CASE k = Item("idea", "init", n) /\ n = Drain
      BY <3>1, <3>2, DrainMoved DEF States
    <3>3. CASE ~(k = Item("idea", "init", n) /\ n = Drain)
      <4>1. k.type # "idea" \/ k.name # Drain
        BY <3>3 DEF Line, Item
      <4> QED
        BY <3>1, <4>1, DrainMoved
    <3> QED
      BY <3>2, <3>3
  <2>2. UNCHANGED <<running, submitted>>
    BY DrainMoved
  <2>3. \A d \in running : On(d, n)' <=> On(d, n)
    BY DEF On, Subject
  <2> QED
    BY <1>2, <2>1, <2>2, <2>3 DEF LineInv
<1>3. BornInv(Lane)'
  <2>1. /\ \A st \in States["task"] : work'[Item("task", st, Lane)] = work[Item("task", st, Lane)]
        /\ \A st \in States["review"] :
             work'[Item("review", st, Lane)] = work[Item("review", st, Lane)]
        /\ work'[Item("idea", "complete", Lane)] = work[Item("idea", "complete", Lane)]
        /\ work'[Item("plan", "complete", Lane)] = work[Item("plan", "complete", Lane)]
    BY DrainMoved, LaneTokens, DrainAssumption DEF Item, States
  <2>2. UNCHANGED running
    BY DrainMoved
  <2>3. TaskExists(Lane) => TaskExists(Lane)'
    BY <2>1, <2>2 DEF TaskExists
  <2> QED
    BY <2>1, <2>2, <2>3 DEF BornInv
<1> QED
  BY <1>1, <1>2, <1>3

-----------------------------------------------------------------------------
(* The invariant                                                           *)

RowInv ==
  /\ WorkTyping /\ Uses
  /\ \A n \in Lanes : LineInv(n)
  /\ BornInv(Lane)
  /\ merged \in BOOLEAN /\ ReportTyping /\ MovesTyping
  /\ ReportInv

LEMMA RowInitInv ==
  ASSUME RowInit
  PROVE  RowInv
<1> USE FactoryAssumption, DrainAssumption DEF RowInit, Init
<1>1. WorkTyping
  BY FS_EmptySet DEF WorkTyping
<1>2. Uses
  BY FS_EmptySet DEF Uses, Users
<1>3. \A n \in Lanes : LineInv(n)
  <2> SUFFICES ASSUME NEW n \in Lanes
               PROVE  LineInv(n)
    OBVIOUS
  <2>1. \A k \in Line(n) : work[k] = 0
    BY LineTokens
  <2> QED
    BY <2>1 DEF LineInv
<1>4. BornInv(Lane)
  BY LaneTokens DEF BornInv, States
<1>5. ReportTyping /\ ReportInv
  BY CreatedIs DEF NoReport, ReportTyping, ReportInv
<1>6. merged \in BOOLEAN
  OBVIOUS
<1>7. MovesTyping
  <2>1. moves \in Seq(Status) /\ Len(moves) = 0
    OBVIOUS
  <2>2. 0 <= MaxMoves
    OBVIOUS
  <2> QED
    BY <2>1, <2>2 DEF MovesTyping
<1> QED
  BY <1>1, <1>2, <1>3, <1>4, <1>5, <1>6, <1>7 DEF RowInv

LEMMA FactoryKept ==
  ASSUME RowInv, FactoryStep
  PROVE  RowInv'
<1> USE DEF RowInv, FactoryStep
<1>1. WorkTyping' /\ Uses'
  BY WorkTyped, UsesKept
<1>2. \A n \in Lanes : LineInv(n)'
  BY LineKept
<1>3. BornInv(Lane)'
  BY BornKept, DrainAssumption
<1>4. ReportTyping' /\ ReportInv'
  <2>1. CASE report' = report
    BY <2>1, ReportStays, DrainAssumption DEF ReportTyping
  <2>2. CASE report' = NoReport
    BY <2>2, NoReportInv
  <2> QED
    BY <2>1, <2>2
<1>5. merged' \in BOOLEAN /\ MovesTyping'
  BY DEF MovesTyping
<1> QED
  BY <1>1, <1>2, <1>3, <1>4, <1>5

\* A step that leaves the factory alone keeps what is known of it.
LEMMA FactoryAlone ==
  ASSUME RowInv, UNCHANGED vars
  PROVE  WorkTyping' /\ Uses' /\ (\A n \in Lanes : LineInv(n)') /\ BornInv(Lane)'
<1> USE DEF vars, RowInv
<1>1. WorkTyping' /\ Uses'
  BY DEF WorkTyping, Uses, Users
<1>2. \A n \in Lanes : LineInv(n)'
  BY DEF LineInv, On, Subject
<1>3. BornInv(Lane)'
  BY DEF BornInv, TaskExists, AtTask, AtReview
<1> QED
  BY <1>1, <1>2, <1>3

LEMMA MoveKept ==
  ASSUME RowInv, report.end, MoveDrain
  PROVE  RowInv'
<1>1. WorkTyping' /\ (\A n \in Lanes : LineInv(n)') /\ BornInv(Lane)'
  BY DrainKeeps DEF RowInv
<1>2. Uses' /\ merged' \in BOOLEAN
  BY DEF MoveDrain, RowInv, Uses, Users
<1>3. ReportTyping' /\ ReportInv'
  BY NoReportInv DEF MoveDrain
<1>4. MovesTyping'
  BY MoveAppends DEF RowInv, ReportInv
<1> QED
  BY <1>1, <1>2, <1>3, <1>4 DEF RowInv

LEMMA RowInvKept ==
  ASSUME RowInv, [RowNext]_allVars
  PROVE  RowInv'
<1>1. CASE FactoryStep
  BY <1>1, FactoryKept
<1>2. CASE MergePullRequest
  <2>1. UNCHANGED <<vars, report, moves>> /\ merged' \in BOOLEAN
    BY <1>2 DEF MergePullRequest
  <2>2. ReportInv' /\ ReportTyping' /\ MovesTyping'
    BY <2>1 DEF RowInv, ReportInv, ReportTyping, MovesTyping, TaskExists, Settled,
       AtTask, AtReview, vars
  <2> QED
    BY <2>1, <2>2, FactoryAlone DEF RowInv
<1>3. CASE ReadPage
  <2>1. UNCHANGED <<vars, merged, moves>>
    BY <1>3 DEF ReadPage
  <2>2. ReportInv' /\ ReportTyping'
    BY <1>3, ReadKept DEF RowInv
  <2> QED
    BY <2>1, <2>2, FactoryAlone DEF RowInv, MovesTyping
<1>4. CASE LeaveRow
  <2>1. UNCHANGED <<vars, merged, moves>> /\ report' = NoReport
    BY <1>4 DEF LeaveRow
  <2> QED
    BY <2>1, NoReportInv, FactoryAlone DEF RowInv, MovesTyping
<1>5. CASE ExecuteConsume \/ ExecuteComplete
  BY <1>5, MoveKept DEF ExecuteConsume, ExecuteComplete
<1>6. CASE UNCHANGED allVars
  <2>1. UNCHANGED <<vars, merged, report, moves>>
    BY <1>6 DEF allVars, vars
  <2>2. ReportInv' /\ ReportTyping' /\ MovesTyping'
    BY <2>1 DEF RowInv, ReportInv, ReportTyping, MovesTyping, TaskExists, Settled,
       AtTask, AtReview, vars
  <2> QED
    BY <2>1, <2>2, FactoryAlone DEF RowInv
<1> QED
  BY <1>1, <1>2, <1>3, <1>4, <1>5, <1>6 DEF RowNext

LEMMA RowInvHolds == RowSpec => []RowInv
<1>1. RowInit => RowInv
  BY RowInitInv
<1>2. RowInv /\ [RowNext]_allVars => RowInv'
  BY RowInvKept
<1> QED
  BY <1>1, <1>2, PTL DEF RowSpec

-----------------------------------------------------------------------------

\* Every variable keeps its type; of no resource of the factory are more units in
\* use than there are, and the visits of a station stop being counted at its bound.
THEOREM TypeCorrect == RowSpec => []RowTypeOK
<1>1. RowInv => RowTypeOK
  BY MovesBounded DEF RowInv, WorkTyping, Uses, ReportTyping, RowTypeOK, TypeOK
<1> QED
  BY <1>1, RowInvHolds, PTL

\* However often work is rejected, retried and repeated, and whatever is moved by
\* hand, one script or agent is at work in the worktree of a name: the workspace
\* setup, the executor and the reviewer of factory.json never meet there.
THEOREM OneInAWorktree == RowSpec => []WorktreeExclusive
<1>1. RowInv => WorktreeExclusive
  <2> SUFFICES ASSUME RowInv, NEW d \in running, NEW e \in running,
                      d.station \in {"setup", "process", "review"},
                      e.station \in {"setup", "process", "review"},
                      d.names[Stations[d.station].first] = e.names[Stations[e.station].first]
               PROVE  d = e
    BY DEF WorktreeExclusive
  <2> DEFINE n == d.names[Stations[d.station].first]
  <2>1. d.station \in DOMAIN Workers /\ d.names \in Binding[d.station]
    BY RunHas DEF RowInv, WorkTyping
  <2>2. n \in Lanes
    BY <2>1, SubjectIs, StationsAre DEF Laned
  <2>3. On(d, n) /\ On(e, n)
    BY DEF On, Subject, Laned
  <2> QED
    BY <2>2, <2>3 DEF RowInv, LineInv
<1> QED
  BY <1>1, RowInvHolds, PTL

\* A report of merged-pr-drain-rows-reconciliation.ts moves a drain idea only when
\* at the time of the move its lane's pull request is merged and nothing of the
\* lane is left to do, although its pages were read while the factory worked.
THEOREM MovesJustified == RowSpec => DrainMoveJustified
<1> DEFINE Justified ==
      moves' # moves /\ Last(moves') = "executed" => merged /\ LaneSettled
<1>1. RowInv /\ [RowNext]_allVars => Justified
  <2> SUFFICES ASSUME RowInv, [RowNext]_allVars, moves' # moves
               PROVE  merged /\ LaneSettled
    OBVIOUS
  <2>1. ExecuteConsume \/ ExecuteComplete
    BY DEF RowNext, FactoryStep, MergePullRequest, ReadPage, LeaveRow, allVars
  <2>2. report.end /\ merged
    BY <2>1 DEF ExecuteConsume, ExecuteComplete, MergedIntoOriginMain
  <2>3. Settled(Lane)
    BY <2>2 DEF RowInv, ReportInv
  <2> QED
    BY <2>2, <2>3, SettledIsListed, DrainAssumption DEF RowInv
<1>2. RowInv /\ [RowNext]_allVars => [Justified]_allVars
  BY <1>1
<1> HIDE DEF Justified
<1>3. RowSpec => [][Justified]_allVars
  BY <1>2, RowInvHolds, PTL DEF RowSpec
<1> QED
  BY <1>3 DEF Justified, DrainMoveJustified
-----------------------------------------------------------------------------
(* Counting reviews and the tasks they are for                             *)

\* The names of the items of a type and state among some items.
In(items, type, state) == {n \in Lanes : Item(type, state, n) \in items}

\* There are finitely many names, and finitely many items under each.
LEMMA UnitsFinite ==
  ASSUME WorkTyping, NEW type \in {"task", "review"}, NEW state \in States[type]
  PROVE  IsFiniteSet(Units(type, state)) /\ Count(type, state) \in Nat
<1> DEFINE Of == [n \in Lanes |-> {n} \X (1..work[Item(type, state, n)])]
           All == {{n} \X (1..work[Item(type, state, n)]) : n \in Lanes}
<1>1. IsFiniteSet(Lanes)
  BY FactoryAssumption, FS_Subset DEF Lanes
<1>2. IsFiniteSet(All)
  <2>1. Of \in Surjection(Lanes, All)
    BY DEF Surjection
  <2> HIDE DEF Of, All
  <2> QED
    BY <1>1, <2>1, FS_Surjection
<1>3. \A set \in All : IsFiniteSet(set)
  <2> SUFFICES ASSUME NEW n \in Lanes
               PROVE  IsFiniteSet({n} \X (1..work[Item(type, state, n)]))
    OBVIOUS
  <2>1. work[Item(type, state, n)] \in Nat
    BY LaneTokens DEF WorkTyping
  <2>2. IsFiniteSet(1..work[Item(type, state, n)])
    BY <2>1, FS_Interval
  <2>3. IsFiniteSet({n})
    BY FS_Singleton
  <2> QED
    BY <2>2, <2>3, FS_Product
<1>4. Units(type, state) = UNION All
  BY DEF Units, Named
<1> HIDE DEF All
<1> QED
  BY <1>2, <1>3, <1>4, FS_UNION, FS_CardinalityType DEF Count

\* An item more or less is one unit more or less.
LEMMA UnitsChange ==
  ASSUME WorkTyping, WorkTyping',
         NEW type \in {"task", "review"}, NEW state \in States[type], NEW n \in Lanes,
         \A m \in Lanes \ {n} : work'[Item(type, state, m)] = work[Item(type, state, m)]
  PROVE  LET before == work[Item(type, state, n)]
             after == work'[Item(type, state, n)] IN
         /\ after = before => Count(type, state)' = Count(type, state)
         /\ after = before + 1 => Count(type, state)' = Count(type, state) + 1
         /\ after = before - 1 => Count(type, state)' = Count(type, state) - 1
<1> DEFINE at(m) == work[Item(type, state, m)]
<1>1. \A m \in Lanes : at(m) \in Nat /\ at(m)' \in Nat
  BY LaneTokens DEF WorkTyping
<1>2. IsFiniteSet(Units(type, state))
  BY UnitsFinite
<1>3. \A u : u \in Units(type, state) <=> \E m \in Lanes : \E i \in 1..at(m) : u = <<m, i>>
  BY DEF Units, Named
<1>4. \A u : u \in Units(type, state)' <=> \E m \in Lanes : \E i \in 1..at(m)' : u = <<m, i>>
  BY DEF Units, Named
<1>5. \A m \in Lanes \ {n} : at(m)' = at(m)
  OBVIOUS
<1> HIDE DEF at
<1>6. at(n)' = at(n) => Units(type, state)' = Units(type, state)
  BY <1>3, <1>4, <1>5
<1>7. ASSUME at(n)' = at(n) + 1
      PROVE  /\ Units(type, state)' = Units(type, state) \cup {<<n, at(n)'>>}
             /\ <<n, at(n)'>> \notin Units(type, state)
  <2>1. 1..at(n)' = (1..at(n)) \cup {at(n)'} /\ at(n)' \notin 1..at(n)
    BY <1>1, <1>7
  <2> QED
    BY <1>3, <1>4, <1>5, <2>1
<1>8. ASSUME at(n)' = at(n) - 1
      PROVE  /\ Units(type, state)' = Units(type, state) \ {<<n, at(n)>>}
             /\ <<n, at(n)>> \in Units(type, state)
  <2>1. 1..at(n)' = (1..at(n)) \ {at(n)} /\ at(n) \in 1..at(n)
    BY <1>1, <1>8
  <2> QED
    BY <1>3, <1>4, <1>5, <2>1
<1>a. /\ Count(type, state) = Cardinality(Units(type, state))
      /\ Count(type, state)' = Cardinality(Units(type, state)')
  BY DEF Count
<1>9. at(n)' = at(n) => Count(type, state)' = Count(type, state)
  BY <1>6, <1>a
<1>10. ASSUME at(n)' = at(n) + 1
       PROVE  Count(type, state)' = Count(type, state) + 1
  <2>1. Cardinality(Units(type, state) \cup {<<n, at(n)'>>}) = Cardinality(Units(type, state)) + 1
    BY <1>2, <1>7, <1>10, FS_AddElement
  <2> QED
    BY <1>7, <1>10, <1>a, <2>1
<1>11. ASSUME at(n)' = at(n) - 1
       PROVE  Count(type, state)' = Count(type, state) - 1
  <2>1. Cardinality(Units(type, state) \ {<<n, at(n)>>}) = Cardinality(Units(type, state)) - 1
    BY <1>2, <1>8, <1>11, FS_RemoveElement
  <2> QED
    BY <1>8, <1>11, <1>a, <2>1
<1> QED
  BY <1>9, <1>10, <1>11 DEF at
\* What is taken and put away from one name changes a count by one.
LEMMA CountBy ==
  ASSUME WorkTyping, WorkTyping',
         NEW type \in {"task", "review"}, NEW state \in States[type], NEW taken, NEW put,
         \A k \in Token : work'[k] = (IF k \in taken THEN work[k] - 1 ELSE work[k])
                                     + (IF k \in put THEN 1 ELSE 0)
  PROVE  LET out == In(taken, type, state)
             in == In(put, type, state) IN
         /\ out = {} /\ in = {} => Count(type, state)' = Count(type, state)
         /\ \A n \in Lanes : out = {n} /\ in = {} => Count(type, state)' = Count(type, state) - 1
         /\ \A n \in Lanes : out = {} /\ in = {n} => Count(type, state)' = Count(type, state) + 1
<1> DEFINE out == In(taken, type, state)
           in == In(put, type, state)
<1>1. ASSUME NEW m \in Lanes
      PROVE  work'[Item(type, state, m)] =
               (IF m \in out THEN work[Item(type, state, m)] - 1 ELSE work[Item(type, state, m)])
               + (IF m \in in THEN 1 ELSE 0)
  BY LaneTokens DEF In
<1>2. \A m \in Lanes : work[Item(type, state, m)] \in Nat
  BY LaneTokens DEF WorkTyping
<1> HIDE DEF out, in
<1>3. ASSUME out = {}, in = {}
      PROVE  Count(type, state)' = Count(type, state)
  <2>1. \A m \in Lanes : work'[Item(type, state, m)] = work[Item(type, state, m)]
    BY <1>1, <1>2, <1>3
  <2>2. CASE Lanes = {}
    BY <2>2 DEF Count, Units, Named
  <2>3. ASSUME NEW n \in Lanes
        PROVE  Count(type, state)' = Count(type, state)
    BY <2>1, UnitsChange
  <2> QED
    BY <2>2, <2>3
<1>4. ASSUME NEW n \in Lanes, out = {n}, in = {}
      PROVE  Count(type, state)' = Count(type, state) - 1
  <2>1. \A m \in Lanes \ {n} : work'[Item(type, state, m)] = work[Item(type, state, m)]
    BY <1>1, <1>2, <1>4
  <2>2. work'[Item(type, state, n)] = work[Item(type, state, n)] - 1
    BY <1>1, <1>2, <1>4
  <2> QED
    BY <2>1, <2>2, UnitsChange
<1>5. ASSUME NEW n \in Lanes, out = {}, in = {n}
      PROVE  Count(type, state)' = Count(type, state) + 1
  <2>1. \A m \in Lanes \ {n} : work'[Item(type, state, m)] = work[Item(type, state, m)]
    BY <1>1, <1>2, <1>5
  <2>2. work'[Item(type, state, n)] = work[Item(type, state, n)] + 1
    BY <1>1, <1>2, <1>5
  <2> QED
    BY <2>1, <2>2, UnitsChange
<1> QED
  BY <1>3, <1>4, <1>5 DEF out, in

\* Among these items are none that ReviewsAccountedFor counts.
Uncounted(items) ==
  /\ In(items, "review", "init") = {} /\ In(items, "review", "complete") = {}
  /\ In(items, "task", "in-review") = {} /\ In(items, "task", "to-complete") = {}
  /\ In(items, "task", "complete") = {}

\* Among these, a review for n and a task in state of m are.
CountedPair(items, review, n, state, m) ==
  /\ n \in Lanes /\ m \in Lanes
  /\ \A st \in {"init", "complete"} :
       In(items, "review", st) = IF st = review THEN {n} ELSE {}
  /\ \A st \in {"in-review", "to-complete", "complete"} :
       In(items, "task", st) = IF st = state THEN {m} ELSE {}

CountedTask(items, state, m) ==
  /\ m \in Lanes
  /\ In(items, "review", "init") = {} /\ In(items, "review", "complete") = {}
  /\ \A st \in {"in-review", "to-complete", "complete"} :
       In(items, "task", st) = IF st = state THEN {m} ELSE {}

\* The stations take and leave a counted review with a counted task, or neither.
LEMMA WorkersCounted ==
  ASSUME NEW s \in DOMAIN Workers, NEW names \in Binding[s]
  PROVE  /\ LET taken == Items(s, names, Stations[s].inputs) IN
            IF s = "review"
            THEN CountedPair(taken, "init", names["review"], "in-review", names["task"])
            ELSE Uncounted(taken)
         /\ \A result \in Stations[s].results :
              LET put == Items(s, names, result) IN
              \/ Uncounted(put)
              \/ \E n : CountedPair(put, "init", n, "in-review", n)
              \/ \E n, m : CountedPair(put, "complete", n, "to-complete", m)
<1> USE StationsAre, BindingIs DEF In, Item, Uncounted, CountedPair
<1>1. CASE s = "ideafy"
  BY <1>1, IdeafyItems
<1>2. CASE s = "plan"
  BY <1>2, PlanItems
<1>3. CASE s = "setup"
  BY <1>3, SetupItems
<1>4. CASE s = "process"
  BY <1>4, ProcessItems
<1>5. CASE s = "review"
  BY <1>5, ReviewItems
<1> HIDE DEF In, Item, Uncounted, CountedPair
<1> QED
  BY <1>1, <1>2, <1>3, <1>4, <1>5, StationsAre

LEMMA MovesCounted ==
  ASSUME NEW s \in DOMAIN Moves, NEW names \in Binding[s],
         NEW result \in Stations[s].results
  PROVE  LET taken == Items(s, names, Stations[s].inputs)
             put == Items(s, names, result)
             m == names["task"] IN
         /\ s = "consume" => CountedTask(taken, "to-complete", m) /\ CountedTask(put, "complete", m)
         /\ s = "execBreaker" => Uncounted(taken) /\ Uncounted(put)
         /\ s = "reviewBreaker" => CountedTask(taken, "in-review", m) /\ Uncounted(put)
<1> USE StationsAre, BindingIs DEF In, Item, Uncounted, CountedTask
<1>1. CASE s = "consume"
  BY <1>1, MoveItems
<1>2. CASE s = "execBreaker"
  BY <1>2, MoveItems
<1>3. CASE s = "reviewBreaker"
  BY <1>3, MoveItems
<1> HIDE DEF In, Item, Uncounted, CountedTask
<1> QED
  BY <1>1, <1>2, <1>3, StationsAre
\* The counts follow what is taken and what is put.
CountsFollow(taken, put) ==
  /\ \A st \in {"init", "complete"} :
       LET out == In(taken, "review", st)
           in == In(put, "review", st) IN
       /\ out = {} /\ in = {} => Count("review", st)' = Count("review", st)
       /\ \A n \in Lanes : out = {n} /\ in = {} =>
            Count("review", st)' = Count("review", st) - 1
       /\ \A n \in Lanes : out = {} /\ in = {n} =>
            Count("review", st)' = Count("review", st) + 1
  /\ \A st \in {"in-review", "to-complete", "complete"} :
       LET out == In(taken, "task", st)
           in == In(put, "task", st) IN
       /\ out = {} /\ in = {} => Count("task", st)' = Count("task", st)
       /\ \A n \in Lanes : out = {n} /\ in = {} =>
            Count("task", st)' = Count("task", st) - 1
       /\ \A n \in Lanes : out = {} /\ in = {n} =>
            Count("task", st)' = Count("task", st) + 1

LEMMA ReviewsKeptByNext ==
  ASSUME WorkTyping, WorkTyping', ReviewsAccountedFor, Next
  PROVE  ReviewsAccountedFor'
<1>1. /\ {"task", "review"} \subseteq DOMAIN States
      /\ {"init", "complete"} \subseteq States["review"]
      /\ {"in-review", "to-complete", "complete"} \subseteq States["task"]
  BY DEF States
<1>2. /\ \A st \in {"init", "complete"} : Count("review", st) \in Nat
      /\ \A st \in {"in-review", "to-complete", "complete"} : Count("task", st) \in Nat
      /\ broken \in Nat
  BY <1>1, UnitsFinite DEF WorkTyping
<1>3. ASSUME NEW taken, NEW put,
             \A k \in Token : work'[k] = (IF k \in taken THEN work[k] - 1 ELSE work[k])
                                         + (IF k \in put THEN 1 ELSE 0)
      PROVE  CountsFollow(taken, put)
  BY <1>1, <1>3, CountBy DEF CountsFollow
<1>4. CASE ThoughtRetrigger \/ \E n \in Lanes : \E kind \in Kinds[n] : Submit(n, kind)
  <2>1. ASSUME NEW type \in DOMAIN States \ {"review"}, NEW name, broken' = broken,
               work' = [work EXCEPT ![Item(type, "init", name)] = @ + 1]
        PROVE  ReviewsAccountedFor'
    <3> DEFINE new == Item(type, "init", name)
    <3>1. \A k \in Token : work'[k] = (IF k \in {} THEN work[k] - 1 ELSE work[k])
                                      + (IF k \in {new} THEN 1 ELSE 0)
      BY <2>1 DEF WorkTyping
    <3>2. Uncounted({new}) /\ Uncounted({})
      BY <2>1 DEF Uncounted, In, Item
    <3> HIDE DEF new
    <3>3. CountsFollow({}, {new})
      BY <1>3, <3>1
    <3> QED
      BY <1>2, <2>1, <3>2, <3>3 DEF CountsFollow, Uncounted, ReviewsAccountedFor
  <2>2. CASE ThoughtRetrigger
    BY <2>1, <2>2 DEF ThoughtRetrigger, States
  <2>3. ASSUME NEW n \in Lanes, NEW kind \in Kinds[n], Submit(n, kind)
        PROVE  ReviewsAccountedFor'
    <3>1. kind \in DOMAIN States \ {"review"}
      BY FactoryAssumption DEF Lanes, States
    <3> QED
      BY <2>1, <2>3, <3>1 DEF Submit
  <2> QED
    BY <1>4, <2>2, <2>3
<1>5. ASSUME NEW s \in DOMAIN Workers, NEW names \in Binding[s], Dispatch(s, names)
      PROVE  ReviewsAccountedFor'
  <2> DEFINE taken == Items(s, names, Stations[s].inputs)
  <2>1. \A k \in Token : work'[k] = (IF k \in taken THEN work[k] - 1 ELSE work[k])
                                    + (IF k \in {} THEN 1 ELSE 0)
    BY <1>5, Dispatched DEF WorkTyping
  <2>2. broken' = broken
    BY <1>5 DEF Dispatch
  <2>3. Uncounted({})
    BY DEF Uncounted, In
  <2>4. \/ Uncounted(taken)
        \/ CountedPair(taken, "init", names["review"], "in-review", names["task"])
    BY WorkersCounted
  <2> HIDE DEF taken
  <2>5. CountsFollow(taken, {})
    BY <1>3, <2>1
  <2>6. CASE Uncounted(taken)
    BY <2>2, <2>3, <2>5, <2>6 DEF CountsFollow, Uncounted, ReviewsAccountedFor
  <2>7. CASE CountedPair(taken, "init", names["review"], "in-review", names["task"])
    BY <1>2, <2>2, <2>3, <2>5, <2>7 DEF CountsFollow, Uncounted, CountedPair, ReviewsAccountedFor
  <2> QED
    BY <2>4, <2>6, <2>7
<1>6. ASSUME NEW run \in running, Finish(run)
      PROVE  ReviewsAccountedFor'
  <2>1. PICK result \in Stations[run.station].results :
          \A k \in Token :
            work'[k] = IF k \in Items(run.station, run.names, result)
                       THEN work[k] + 1 ELSE work[k]
    BY <1>6, Finished
  <2> DEFINE put == Items(run.station, run.names, result)
  <2>2. \A k \in Token : work'[k] = (IF k \in {} THEN work[k] - 1 ELSE work[k])
                                    + (IF k \in put THEN 1 ELSE 0)
    BY <2>1 DEF WorkTyping
  <2>3. broken' = broken
    BY <1>6 DEF Finish
  <2>4. Uncounted({})
    BY DEF Uncounted, In
  <2>5. \/ Uncounted(put)
        \/ \E n : CountedPair(put, "init", n, "in-review", n)
        \/ \E n, m : CountedPair(put, "complete", n, "to-complete", m)
    BY <1>6, Finished, WorkersCounted
  <2> HIDE DEF put
  <2>6. CountsFollow({}, put)
    BY <1>3, <2>2
  <2>7. CASE Uncounted(put)
    BY <2>3, <2>4, <2>6, <2>7 DEF CountsFollow, Uncounted, ReviewsAccountedFor
  <2>8. ASSUME NEW n, CountedPair(put, "init", n, "in-review", n)
        PROVE  ReviewsAccountedFor'
    BY <1>2, <2>3, <2>4, <2>6, <2>8 DEF CountsFollow, Uncounted, CountedPair, ReviewsAccountedFor
  <2>9. ASSUME NEW n, NEW m, CountedPair(put, "complete", n, "to-complete", m)
        PROVE  ReviewsAccountedFor'
    BY <1>2, <2>3, <2>4, <2>6, <2>9 DEF CountsFollow, Uncounted, CountedPair, ReviewsAccountedFor
  <2> QED
    BY <2>5, <2>7, <2>8, <2>9
<1>7. ASSUME NEW s \in DOMAIN Moves, NEW names \in Binding[s], Move(s, names)
      PROVE  ReviewsAccountedFor'
  <2> DEFINE taken == Items(s, names, Stations[s].inputs)
  <2>1. PICK result \in Stations[s].results :
          \A k \in Token :
            work'[k] = (IF k \in taken THEN work[k] - 1 ELSE work[k])
                       + (IF k \in Items(s, names, result) THEN 1 ELSE 0)
    BY <1>7, Moved
  <2> DEFINE put == Items(s, names, result)
  <2>2. broken' = IF s = "reviewBreaker" THEN broken + 1 ELSE broken
    BY <1>7 DEF Move
  <2>3. LET m == names["task"] IN
        /\ s = "consume" => CountedTask(taken, "to-complete", m) /\ CountedTask(put, "complete", m)
        /\ s = "execBreaker" => Uncounted(taken) /\ Uncounted(put)
        /\ s = "reviewBreaker" => CountedTask(taken, "in-review", m) /\ Uncounted(put)
    BY MovesCounted
  <2>4. s \in {"consume", "execBreaker", "reviewBreaker"}
    BY StationsAre
  <2> HIDE DEF taken, put
  <2>5. \A k \in Token : work'[k] = (IF k \in taken THEN work[k] - 1 ELSE work[k])
                                    + (IF k \in put THEN 1 ELSE 0)
    BY <2>1 DEF put
  <2>6. CountsFollow(taken, put)
    BY <1>3, <2>5
  <2> QED
    BY <1>2, <2>2, <2>3, <2>4, <2>6 DEF CountsFollow, Uncounted, CountedTask, ReviewsAccountedFor
<1> QED
  BY <1>4, <1>5, <1>6, <1>7 DEF Next

\* A count is of what is at rest of its type alone.
LEMMA ReviewsKeptAside ==
  ASSUME ReviewsAccountedFor, broken' = broken,
         \A type \in {"task", "review"} : \A state \in States[type] : \A n \in Lanes :
           work'[Item(type, state, n)] = work[Item(type, state, n)]
  PROVE  ReviewsAccountedFor'
<1>1. ASSUME NEW type \in {"task", "review"}, NEW state \in States[type]
      PROVE  Count(type, state)' = Count(type, state)
  BY DEF Count, Units, Named
<1> QED
  BY <1>1 DEF ReviewsAccountedFor, States

\* However the reviewers of factory.json pair reviews with tasks, and whatever is
\* rejected, repeated, broken off or moved by hand: there is a review item for each
\* task in review, one more for each task the breaker took away, and as many
\* reviews are complete as tasks have passed theirs.
THEOREM ReviewsBalance == RowSpec => []ReviewsAccountedFor
<1>1. RowInit => ReviewsAccountedFor
  <2> SUFFICES ASSUME RowInit
               PROVE  ReviewsAccountedFor
    OBVIOUS
  <2>1. ASSUME NEW type \in {"task", "review"}, NEW state \in States[type]
        PROVE  Count(type, state) = 0
    <3>1. \A n \in Lanes : 1..work[Item(type, state, n)] = {}
      BY LaneTokens DEF RowInit, Init
    <3>2. Units(type, state) = {}
      BY <3>1 DEF Units, Named
    <3> QED
      BY <3>2, FS_EmptySet DEF Count
  <2>2. broken = 0
    BY DEF RowInit, Init
  <2> QED
    BY <2>1, <2>2 DEF ReviewsAccountedFor, States
<1>2. RowInv /\ RowInv' /\ ReviewsAccountedFor /\ [RowNext]_allVars => ReviewsAccountedFor'
  <2> SUFFICES ASSUME RowInv, RowInv', ReviewsAccountedFor, [RowNext]_allVars
               PROVE  ReviewsAccountedFor'
    OBVIOUS
  <2>1. CASE FactoryStep
    BY <2>1, ReviewsKeptByNext DEF FactoryStep, RowInv
  <2>2. CASE ExecuteConsume \/ ExecuteComplete
    <3>1. MoveDrain
      BY <2>2 DEF ExecuteConsume, ExecuteComplete
    <3>2. \A type \in {"task", "review"} : \A state \in States[type] : \A n \in Lanes :
            work'[Item(type, state, n)] = work[Item(type, state, n)]
      BY <3>1, DrainMoved, LaneTokens DEF RowInv, Item
    <3> QED
      BY <3>1, <3>2, DrainMoved, ReviewsKeptAside DEF RowInv
  <2>3. CASE UNCHANGED <<work, broken>>
    BY <2>3, ReviewsKeptAside
  <2>4. \/ FactoryStep \/ ExecuteConsume \/ ExecuteComplete \/ UNCHANGED <<work, broken>>
    BY DEF RowNext, MergePullRequest, ReadPage, LeaveRow, vars, allVars
  <2> QED
    BY <2>1, <2>2, <2>3, <2>4
<1> QED
  BY <1>1, <1>2, RowInvHolds, PTL DEF RowSpec
=============================================================================
