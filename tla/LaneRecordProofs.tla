-------------------------- MODULE LaneRecordProofs --------------------------
(***************************************************************************)
(* Lane records for every number of lanes, branches, processes and steps:   *)
(* the shape of the state, that a record which calls a pull request current *)
(* rests on an answer of GitHub, and that a lane keeps its time of creation. *)
(***************************************************************************)
EXTENDS LaneRecord, SequenceTheorems, TLAPS

Found == [branch : Branch \cup {NoBranch}, pull : Pull \cup {NoPull},
          live : BOOLEAN]

Drafting == {"stamping", "writing", "refreshing", "rewriting"}

\* A busy process works on a lane, and what it is about to write is a record.
Busy ==
  \A p \in Process :
    /\ pc[p] # "idle" => at[p] \in Lane
    /\ pc[p] = "copied" => setups > 0
    /\ pc[p] \in Drafting => draft[p] \in Record

TypeInv == TypeOK /\ Busy

-----------------------------------------------------------------------------

\* A record in the file is one, unless it is missing or garbled.
LEMMA ReadableIsRecord ==
  ASSUME NEW f \in Record \cup {NoFile, Garbled}, Readable(f)
  PROVE  f \in Record
BY DEF Readable

\* A stamp is a record whose linkage is missing.
LEMMA StampIsRecord ==
  ASSUME NEW n \in Lane, NEW born \in 1..MaxSetups
  PROVE  /\ Stamp(n, born) \in Record
         /\ Stamp(n, born).status = "missing" /\ Stamp(n, born).born = born
BY LaneAssumption DEF Stamp, Record

\* A refreshed record is a record with the time of creation of the old one.
LEMMA RefreshedIsRecord ==
  ASSUME NEW r \in Record, NEW f \in Found
  PROVE  /\ Refreshed(r, f) \in Record
         /\ Refreshed(r, f).born = r.born
<1> USE LaneAssumption DEF Record, Found, Refreshed, NoPull, Pull
<1>1. CASE f.branch = NoBranch
  BY <1>1
<1>2. CASE f.branch # NoBranch /\ f.pull # NoPull
  BY <1>2
<1>3. CASE f.branch # NoBranch /\ f.pull = NoPull
  BY <1>3
<1> QED
  BY <1>1, <1>2, <1>3

\* What a refreshed record calls current was found, or stood in the old one.
LEMMA RefreshedCurrent ==
  ASSUME NEW r \in Record, NEW f \in Found, Refreshed(r, f).status = "current"
  PROVE  \/ /\ f.branch # NoBranch /\ f.pull # NoPull
            /\ Refreshed(r, f).branch = f.branch
            /\ Refreshed(r, f).pull = f.pull
         \/ f.branch = NoBranch /\ Refreshed(r, f) = r
<1> USE LaneAssumption DEF Record, Found, Refreshed, NoPull, Pull
<1>1. CASE f.branch = NoBranch
  BY <1>1
<1>2. CASE f.branch # NoBranch /\ f.pull # NoPull
  BY <1>2
<1>3. CASE f.branch # NoBranch /\ f.pull = NoPull
  BY <1>3
<1> QED
  BY <1>1, <1>2, <1>3

\* The branches to ask for are branches.
LEMMA CandidatesAreBranches ==
  ASSUME TypeOK, NEW n \in Lane
  PROVE  /\ RecordedBranch(n) \in Branch \cup {NoBranch}
         /\ Candidates(n) \in Seq(Branch)
<1>1. RecordedBranch(n) \in Branch \cup {NoBranch}
  BY ReadableIsRecord, LaneAssumption DEF TypeOK, RecordedBranch, Record
<1>2. \A take \in BOOLEAN, b \in Branch \cup {NoBranch} :
        (IF take /\ b # NoBranch THEN <<b>> ELSE <<>>) \in Seq(Branch)
  <2> TAKE take \in BOOLEAN, b \in Branch \cup {NoBranch}
  <2>1. CASE b \in Branch
    BY <2>1
  <2>2. CASE b = NoBranch
    BY <2>2
  <2> QED
    BY <2>1, <2>2
<1>3. \A s, t \in Seq(Branch) : s \o t \in Seq(Branch)
  BY ConcatProperties
<1>4. head[n] \in Branch \cup {NoBranch} /\ PrdBranch[n] \in Branch \cup {NoBranch}
  BY LaneAssumption DEF TypeOK
<1> QED
  BY <1>1, <1>2, <1>3, <1>4 DEF Candidates

-----------------------------------------------------------------------------

\* Every reachable state has the right shape.
LEMMA TypeInvInit == Init => TypeInv
BY LaneAssumption
   DEF Init, TypeInv, TypeOK, Busy, Stage, Reporting, Drafting, Nothing, NoPull

\* No step disturbs it.
LEMMA TypeInvStep ==
  ASSUME TypeInv, [Next]_vars
  PROVE  TypeInv'
<1> USE LaneAssumption
        DEF TypeInv, TypeOK, Busy, Stage, Reporting, Drafting, Found
<1>1. CASE UNCHANGED vars
  BY <1>1 DEF vars, world, work, history
<1>2. ASSUME NEW n \in Lane, NEW b \in Branch \cup {NoBranch}, SwitchBranch(n, b)
      PROVE  TypeInv'
  BY <1>2 DEF SwitchBranch, work, history
<1>3. ASSUME NEW b \in Branch, OpenPull(b)
      PROVE  TypeInv'
  BY <1>3 DEF OpenPull, work, history, Pull
<1>4. ASSUME NEW b \in Branch, ClosePull(b)
      PROVE  TypeInv'
  BY <1>4 DEF ClosePull, work, history, NoPull
<1>5. ASSUME NEW p \in Process, NEW n \in Lane, Prepare(p, n)
      PROVE  TypeInv'
  BY <1>5 DEF Prepare, Go, history
<1>6. ASSUME NEW p \in Process, ReadBirth(p)
      PROVE  TypeInv'
  <2> DEFINE born == IF Readable(file[at[p]]) THEN file[at[p]].born ELSE setups
  <2>1. at[p] \in Lane /\ pc[p] = "copied" /\ setups \in 1..MaxSetups
    BY <1>6 DEF ReadBirth
  <2>2. born \in 1..MaxSetups
    BY <2>1, ReadableIsRecord DEF Record
  <2>3. Stamp(at[p], born) \in Record
    BY <2>1, <2>2, StampIsRecord
  <2> QED
    BY <1>6, <2>1, <2>3 DEF ReadBirth, Go, world
<1>7. ASSUME NEW p \in Process, NEW n \in Lane, Discover(p, n)
      PROVE  TypeInv'
  <2>1. PICK w \in made :
          /\ at' = [at EXCEPT ![p] = w]
          /\ todo' = [todo EXCEPT ![p] = Candidates(w)]
          /\ found' = [found EXCEPT ![p] =
               [branch |-> RecordedBranch(w), live |-> FALSE,
                pull |-> IF Readable(file[w]) /\ file[w].status = "current"
                         THEN file[w].pull ELSE NoPull]]
    BY <1>7 DEF Discover
  <2>2. RecordedBranch(w) \in Branch \cup {NoBranch} /\ Candidates(w) \in Seq(Branch)
    BY CandidatesAreBranches
  <2>3. (IF Readable(file[w]) /\ file[w].status = "current"
         THEN file[w].pull ELSE NoPull) \in Pull \cup {NoPull}
    BY SMTT(30), ReadableIsRecord DEF Record
  <2>4. found' \in [Process -> Found]
    BY <2>1, <2>2, <2>3
  <2> QED
    BY <1>7, <2>1, <2>2, <2>4 DEF Discover, Go, world, history
<1>8. ASSUME NEW p \in Process, LookUpFinds(p)
      PROVE  TypeInv'
  <2> DEFINE b == Head(todo[p])
  <2>1. b \in Branch /\ open[b] \in Pull
    BY <1>8, HeadTailProperties DEF LookUpFinds
  <2>2. found' \in [Process -> Found]
    BY <1>8, <2>1 DEF LookUpFinds
  <2>3. <<b, open[b]>> \in Pair
    BY <2>1 DEF Pair
  <2>4. seen' \in [Lane -> SUBSET Pair]
    BY <1>8, <2>3 DEF LookUpFinds
  <2> QED
    BY <1>8, <2>2, <2>4 DEF LookUpFinds, Go, world
<1>9. ASSUME NEW p \in Process, LookUpFails(p)
      PROVE  TypeInv'
  <2>1. PICK rest \in {Tail(todo[p]), <<>>} :
          /\ todo' = [todo EXCEPT ![p] = rest]
          /\ pc' = [pc EXCEPT ![p] = IF rest = <<>> THEN "found" ELSE "looking"]
    BY <1>9 DEF LookUpFails, Go
  <2>2. rest \in Seq(Branch)
    <3>1. todo[p] \in Seq(Branch) /\ todo[p] # <<>>
      BY <1>9 DEF LookUpFails
    <3>2. Tail(todo[p]) \in Seq(Branch)
      BY <3>1
    <3>3. <<>> \in Seq(Branch)
      OBVIOUS
    <3> QED
      BY <3>2, <3>3
  <2>3. todo' \in [Process -> Seq(Branch)]
    BY <2>1, <2>2
  <2>4. /\ UNCHANGED <<file, world, setups, kills, at, found, draft, dirty, history>>
        /\ pc[p] = "looking"
    BY <1>9 DEF LookUpFails
  <2>5. \E s \in {"found", "looking"} : pc' = [pc EXCEPT ![p] = s]
    BY <2>1
  <2>6. pc' \in [Process -> Stage] /\ pc'[p] \notin Drafting \cup {"copied"}
    BY <2>4, <2>5
  <2>7. TypeOK'
    BY <2>3, <2>4, <2>6 DEF world, history
  <2>8. Busy'
    BY <2>4, <2>5 DEF world
  <2> QED
    BY <2>7, <2>8
<1>10. ASSUME NEW p \in Process, NothingToAsk(p)
       PROVE  TypeInv'
  BY <1>10 DEF NothingToAsk, Go, world, history
<1>11. ASSUME NEW p \in Process, ReadAgain(p)
       PROVE  TypeInv'
  <2>1. CASE Readable(file[at[p]])
    <3>1. Refreshed(file[at[p]], found[p]) \in Record
      BY <1>11, <2>1, ReadableIsRecord, RefreshedIsRecord DEF ReadAgain
    <3>2. /\ draft' = [draft EXCEPT ![p] = Refreshed(file[at[p]], found[p])]
          /\ pc' = [pc EXCEPT ![p] = "refreshing"]
          /\ UNCHANGED <<at, todo, found, outdated, file, world, setups, kills,
                         dirty, seen, before, late, lost>>
          /\ pc[p] = "found"
      BY <1>11, <2>1 DEF ReadAgain, Go
    <3>3. draft' \in [Process -> Record \cup {NoFile}]
      BY <3>1, <3>2
    <3>4. \A q \in Process : pc'[q] \in Drafting => draft'[q] \in Record
      BY <3>1, <3>2
    <3> QED
      BY <3>2, <3>3, <3>4 DEF world
  <2>2. CASE ~Readable(file[at[p]])
    <3>1. Rest(p)
      BY <1>11, <2>2 DEF ReadAgain
    <3>2. outdated' = outdated \ {p}
      BY <1>11, <2>2 DEF ReadAgain
    <3> QED
      BY <1>11, <3>1, <3>2 DEF ReadAgain, Rest, Go, world, Nothing
  <2> QED
    BY <2>1, <2>2
<1>12. ASSUME NEW p \in Process, Truncate(p)
       PROVE  TypeInv'
  BY <1>12 DEF Truncate, Go, world, history
<1>13. ASSUME NEW p \in Process, WriteStamp(p)
       PROVE  TypeInv'
  BY <1>13 DEF WriteStamp, Content, Writers, Reports, Rest, Go, world, Nothing
<1>14. ASSUME NEW p \in Process, WriteRefresh(p)
       PROVE  TypeInv'
  BY <1>14 DEF WriteRefresh, Content, Writers, Rest, Go, world, Nothing
<1>15. ASSUME NEW p \in Process, EndEarly(p)
       PROVE  TypeInv'
  BY <1>15 DEF EndEarly, Rest, Go, world, Nothing
<1> QED
  BY <1>1, <1>2, <1>3, <1>4, <1>5, <1>6, <1>7, <1>8, <1>9, <1>10, <1>11,
     <1>12, <1>13, <1>14, <1>15
  DEF Next, World, Setup, Report

\* Every reachable state has the right shape.
THEOREM TypeCorrect == Spec => []TypeOK
<1>1. Spec => []TypeInv
  BY TypeInvInit, TypeInvStep, PTL DEF Spec
<1>2. TypeInv => TypeOK
  BY DEF TypeInv
<1> QED
  BY <1>1, <1>2, PTL

-----------------------------------------------------------------------------
(* EvidenceIsReal is not inductive: what a report carries from its lookups   *)
(* or from the old record must rest on answers too.                         *)

\* What a report may still call current.
Usable(p) ==
  seen[at[p]] \cup IF at[p] \in late \/ p \in outdated THEN before[at[p]] ELSE {}

\* What p carries rests on an answer.
Carries(p) ==
  /\ pc[p] \in {"looking", "found"} /\ found[p].pull # NoPull =>
       <<found[p].branch, found[p].pull>> \in Usable(p)
  /\ pc[p] \in {"refreshing", "rewriting"} /\ draft[p].status = "current" =>
       <<draft[p].branch, draft[p].pull>> \in Usable(p)
  /\ pc[p] \in {"stamping", "writing"} => draft[p].status = "missing"

EvidenceInv ==
  /\ TypeInv
  /\ EvidenceIsReal
  /\ \A p \in Process : Carries(p)

\* A process that takes no part in a step carries what it carried.
LEMMA CarriesKept ==
  ASSUME NEW q \in Process, Carries(q),
         pc'[q] = pc[q], found'[q] = found[q], draft'[q] = draft[q],
         pc[q] \in Reporting => Usable(q) \subseteq Usable(q)'
  PROVE  Carries(q)'
BY DEF Carries, Reporting

\* At first no record exists.
LEMMA EvidenceInit == Init => EvidenceInv
BY TypeInvInit DEF Init, EvidenceInv, Carries, EvidenceIsReal, Readable, Nothing

\* No step makes a record, or a draft of one, rest on nothing.
LEMMA EvidenceStep ==
  ASSUME EvidenceInv, [Next]_vars
  PROVE  EvidenceInv'
<1>0. TypeInv'
  BY TypeInvStep DEF EvidenceInv
<1> USE <1>0, LaneAssumption, FileAssumption
        DEF EvidenceInv, TypeInv, TypeOK, Busy, Stage, Reporting, Drafting
<1>1. CASE UNCHANGED vars
  BY <1>1 DEF vars, world, work, history, Carries, Usable, EvidenceIsReal, Readable
<1>2. ASSUME NEW n \in Lane, NEW b \in Branch \cup {NoBranch}, SwitchBranch(n, b)
     PROVE  EvidenceInv'
  BY <1>2 DEF SwitchBranch, work, history,
     Carries, Usable, EvidenceIsReal, Readable
<1>3. ASSUME NEW b \in Branch, OpenPull(b)
     PROVE  EvidenceInv'
  BY <1>3 DEF OpenPull, work, history,
     Carries, Usable, EvidenceIsReal, Readable
<1>4. ASSUME NEW b \in Branch, ClosePull(b)
     PROVE  EvidenceInv'
  BY <1>4 DEF ClosePull, work, history,
     Carries, Usable, EvidenceIsReal, Readable
<1>5. ASSUME NEW p \in Process, NEW n \in Lane, Prepare(p, n)
     PROVE  EvidenceInv'
  <2>1. EvidenceIsReal'
    BY <1>5 DEF Prepare, history, EvidenceIsReal, Readable
  <2>2. Carries(p)'
    BY <1>5 DEF Prepare, Go, Carries
  <2>3. ASSUME NEW q \in Process \ {p}  PROVE Carries(q)'
    BY ZenonT(60), <1>5, CarriesKept DEF Prepare, Go, history, Usable
  <2> QED
    BY <2>1, <2>2, <2>3
<1>6. ASSUME NEW p \in Process, ReadBirth(p)
     PROVE  EvidenceInv'
  BY ZenonT(60), <1>6 DEF ReadBirth, Go, Stamp, world,
     Carries, Usable, EvidenceIsReal, Readable
<1>7. ASSUME NEW p \in Process, NEW n \in Lane, Discover(p, n)
     PROVE  EvidenceInv'
  <2>1. EvidenceIsReal'
    BY <1>7 DEF Discover, world, history, EvidenceIsReal, Readable
  <2>2. Carries(p)'
    <3>1. PICK w \in made :
            /\ at' = [at EXCEPT ![p] = w]
            /\ found' = [found EXCEPT ![p] =
                 [branch |-> RecordedBranch(w), live |-> FALSE,
                  pull |-> IF Readable(file[w]) /\ file[w].status = "current"
                           THEN file[w].pull ELSE NoPull]]
      BY <1>7 DEF Discover
    <3>2. pc'[p] = "looking" /\ UNCHANGED <<seen, before, late, outdated>>
      BY <1>7 DEF Discover, Go, history
    <3>3. ASSUME found'[p].pull # NoPull
          PROVE  <<found'[p].branch, found'[p].pull>> \in Usable(p)'
      <4>1. /\ Readable(file[w]) /\ file[w].status = "current"
            /\ found'[p].pull = file[w].pull
        BY <3>1, <3>3
      <4>2. found'[p].branch = file[w].branch
        BY <3>1, <4>1 DEF RecordedBranch
      <4> QED
        BY <3>1, <3>2, <4>1, <4>2 DEF EvidenceIsReal, Usable
    <3> QED
      BY <3>2, <3>3 DEF Carries
  <2>3. ASSUME NEW q \in Process \ {p}  PROVE Carries(q)'
    BY <1>7, CarriesKept DEF Discover, Go, history, Usable
  <2> QED
    BY <2>1, <2>2, <2>3
<1>8. ASSUME NEW p \in Process, LookUpFinds(p)
     PROVE  EvidenceInv'
  <2>1. EvidenceIsReal'
    BY <1>8 DEF LookUpFinds, world, EvidenceIsReal, Readable
  <2>2. Carries(p)'
    BY <1>8 DEF LookUpFinds, Go, Carries, Usable
  <2>3. ASSUME NEW q \in Process \ {p}  PROVE Carries(q)'
    <3>1. /\ pc'[q] = pc[q] /\ at'[q] = at[q]
          /\ found'[q] = found[q] /\ draft'[q] = draft[q]
      BY <1>8 DEF LookUpFinds, Go
    <3>2. pc[q] \in Reporting => Usable(q) \subseteq Usable(q)'
      BY <1>8, <3>1 DEF LookUpFinds, Usable
    <3> QED
      BY <3>1, <3>2, CarriesKept
  <2> QED
    BY <2>1, <2>2, <2>3
<1>9. ASSUME NEW p \in Process, LookUpFails(p)
     PROVE  EvidenceInv'
  BY ZenonT(60), <1>9 DEF LookUpFails, Go, world, history,
     Carries, Usable, EvidenceIsReal, Readable
<1>10. ASSUME NEW p \in Process, NothingToAsk(p)
     PROVE  EvidenceInv'
  BY ZenonT(60), <1>10 DEF NothingToAsk, Go, world, history,
     Carries, Usable, EvidenceIsReal, Readable
<1>11. ASSUME NEW p \in Process, ReadAgain(p)
     PROVE  EvidenceInv'
  <2>1. EvidenceIsReal'
    BY <1>11 DEF ReadAgain, EvidenceIsReal, Readable
  <2>2. Carries(p)'
    <3>1. CASE Readable(file[at[p]])
      <4> DEFINE new == Refreshed(file[at[p]], found[p])
      <4>1. /\ pc[p] = "found" /\ pc'[p] = "refreshing" /\ draft'[p] = new
            /\ UNCHANGED <<at, seen, before, late, outdated>>
        BY <1>11, <3>1 DEF ReadAgain, Go
      <4>2. file[at[p]] \in Record /\ found[p] \in Found /\ at[p] \in Lane
        BY <4>1, <3>1, ReadableIsRecord DEF Found
      <4>3. ASSUME new.status = "current"
            PROVE  <<new.branch, new.pull>> \in Usable(p)
        <5>1. CASE /\ found[p].branch # NoBranch /\ found[p].pull # NoPull
                   /\ new.branch = found[p].branch /\ new.pull = found[p].pull
          BY <4>1, <5>1 DEF Carries
        <5>2. CASE found[p].branch = NoBranch /\ new = file[at[p]]
          BY <4>2, <4>3, <3>1, <5>2 DEF EvidenceIsReal, Usable
        <5> QED
          BY <4>2, <4>3, <5>1, <5>2, RefreshedCurrent
      <4> QED
        BY <4>1, <4>3 DEF Carries, Usable
    <3>2. CASE ~Readable(file[at[p]])
      BY <1>11, <3>2 DEF ReadAgain, Rest, Go, Carries
    <3> QED
      BY <3>1, <3>2
  <2>3. ASSUME NEW q \in Process \ {p}  PROVE Carries(q)'
    BY ZenonT(60), <1>11, CarriesKept DEF ReadAgain, Go, Rest, Usable
  <2> QED
    BY <2>1, <2>2, <2>3
<1>12. ASSUME NEW p \in Process, Truncate(p)
     PROVE  EvidenceInv'
  BY ZenonT(60), <1>12 DEF Truncate, Go, world, history,
     Carries, Usable, EvidenceIsReal, Readable
<1>13. ASSUME NEW p \in Process, WriteStamp(p)
     PROVE  EvidenceInv'
  <2>1. EvidenceIsReal'
    <3>1. PICK f \in Content(p) : file' = [file EXCEPT ![at[p]] = f]
      BY <1>13 DEF WriteStamp
    <3>2. /\ seen' = [seen EXCEPT ![at[p]] = {}] /\ late' = late \ {at[p]}
          /\ before' = [before EXCEPT ![at[p]] = @ \cup seen[at[p]]]
          /\ pc[p] = "writing"
      BY <1>13 DEF WriteStamp
    <3>3. f = Garbled \/ f.status = "missing"
      BY <3>1, <3>2 DEF Content, Carries
    <3>4. ASSUME NEW n \in Lane, Readable(file'[n]), file'[n].status = "current"
          PROVE  n # at[p] /\ file'[n] = file[n]
      BY <3>1, <3>3, <3>4 DEF Readable
    <3> QED
      BY <3>2, <3>4 DEF EvidenceIsReal, Readable
  <2>2. Carries(p)'
    BY <1>13 DEF WriteStamp, Rest, Go, Carries
  <2>3. ASSUME NEW q \in Process \ {p}  PROVE Carries(q)'
    <3>1. /\ pc'[q] = pc[q] /\ at'[q] = at[q]
          /\ found'[q] = found[q] /\ draft'[q] = draft[q]
      BY <1>13 DEF WriteStamp, Rest, Go
    <3>2. pc[q] \in Reporting => Usable(q) \subseteq Usable(q)'
      BY <1>13, <3>1 DEF WriteStamp, Reports, Usable
    <3> QED
      BY <3>1, <3>2, CarriesKept
  <2> QED
    BY <2>1, <2>2, <2>3
<1>14. ASSUME NEW p \in Process, WriteRefresh(p)
     PROVE  EvidenceInv'
  <2>1. EvidenceIsReal'
    <3>1. PICK f \in Content(p) : file' = [file EXCEPT ![at[p]] = f]
      BY <1>14 DEF WriteRefresh
    <3>2. /\ late' = IF p \in outdated THEN late \cup {at[p]} ELSE late
          /\ UNCHANGED <<seen, before>> /\ pc[p] = "rewriting"
      BY <1>14 DEF WriteRefresh
    <3>3. ASSUME Readable(f), f.status = "current"
          PROVE  <<f.branch, f.pull>> \in
                   seen[at[p]] \cup IF at[p] \in late' THEN before[at[p]] ELSE {}
      <4>1. f = draft[p]
        BY <3>3 DEF Content, Readable
      <4> QED
        BY <3>2, <3>3, <4>1 DEF Carries, Usable
    <3>4. ASSUME NEW n \in Lane, Readable(file'[n]), file'[n].status = "current"
          PROVE  <<file'[n].branch, file'[n].pull>> \in
                   seen[n] \cup IF n \in late' THEN before[n] ELSE {}
      <4>1. CASE n = at[p]
        BY <3>1, <3>3, <3>4, <4>1
      <4>2. CASE n # at[p]
        BY <3>1, <3>2, <3>4, <4>2 DEF EvidenceIsReal
      <4> QED
        BY <4>1, <4>2
    <3> QED
      BY <3>2, <3>4 DEF EvidenceIsReal, Readable
  <2>2. Carries(p)'
    BY <1>14 DEF WriteRefresh, Rest, Go, Carries
  <2>3. ASSUME NEW q \in Process \ {p}  PROVE Carries(q)'
    <3>1. /\ pc'[q] = pc[q] /\ at'[q] = at[q]
          /\ found'[q] = found[q] /\ draft'[q] = draft[q]
      BY <1>14 DEF WriteRefresh, Rest, Go
    <3>2. pc[q] \in Reporting => Usable(q) \subseteq Usable(q)'
      BY <1>14, <3>1 DEF WriteRefresh, Usable
    <3> QED
      BY <3>1, <3>2, CarriesKept
  <2> QED
    BY <2>1, <2>2, <2>3
<1>15. ASSUME NEW p \in Process, EndEarly(p)
     PROVE  EvidenceInv'
  <2>1. EvidenceIsReal'
    BY <1>15 DEF EndEarly, EvidenceIsReal, Readable
  <2>2. Carries(p)'
    BY <1>15 DEF EndEarly, Rest, Go, Carries
  <2>3. ASSUME NEW q \in Process \ {p}  PROVE Carries(q)'
    <3>1. /\ pc'[q] = pc[q] /\ at'[q] = at[q]
          /\ found'[q] = found[q] /\ draft'[q] = draft[q]
      BY <1>15 DEF EndEarly, Rest, Go
    <3>2. pc[q] \in Reporting => Usable(q) \subseteq Usable(q)'
      BY <1>15, <3>1 DEF EndEarly, Usable
    <3> QED
      BY <3>1, <3>2, CarriesKept
  <2> QED
    BY <2>1, <2>2, <2>3
<1> QED
  BY <1>1, <1>2, <1>3, <1>4, <1>5, <1>6, <1>7, <1>8,
     <1>9, <1>10, <1>11, <1>12, <1>13, <1>14, <1>15
  DEF Next, World, Setup, Report

\* For any number of reports and setups, in any order: a record that calls a
\* pull request current names one that GitHub gave for its branch.
THEOREM EvidenceHolds == Spec => []EvidenceIsReal
<1>1. Spec => []EvidenceInv
  BY EvidenceInit, EvidenceStep, PTL DEF Spec
<1>2. EvidenceInv => EvidenceIsReal
  BY DEF EvidenceInv
<1> QED
  BY <1>1, <1>2, PTL

-----------------------------------------------------------------------------
(* BirthKept rests on three facts: only a process that is about to write has *)
(* a draft, a lane has one setup at a time, and a record once made is never  *)
(* removed.                                                                 *)

BirthInv ==
  /\ TypeInv
  /\ \A p \in Process :
       /\ pc[p] \notin Drafting => draft[p] = NoFile
       /\ pc[p] \in {"writing", "refreshing", "rewriting"} => file[at[p]] # NoFile
       /\ pc[p] \in Drafting /\ Readable(file[at[p]]) /\ at[p] \notin lost =>
            draft[p].born = file[at[p]].born
  /\ \A p, q \in Process :
       /\ at[p] = at[q] /\ p # q /\ pc[p] \in {"copied", "stamping", "writing"} =>
            pc[q] \notin {"copied", "stamping", "writing"}
       /\ at[p] = at[q] /\ {pc[p], pc[q]} \subseteq Drafting /\ at[p] \notin lost =>
            draft[p].born = draft[q].born

\* At first there are no records.
LEMMA BirthInit == Init => BirthInv
BY TypeInvInit DEF Init, BirthInv, Readable, Drafting, Nothing

\* No step lets two creation times of one lane differ.
LEMMA BirthStep ==
  ASSUME BirthInv, [Next]_vars
  PROVE  BirthInv'
<1>0. TypeInv'
  BY TypeInvStep DEF BirthInv
<1> USE <1>0, LaneAssumption, FileAssumption
        DEF BirthInv, TypeInv, TypeOK, Busy, Stage, Reporting, Drafting, Readable
<1>1. CASE UNCHANGED vars
  BY <1>1 DEF vars, world, work, history
<1>2. ASSUME NEW n \in Lane, NEW b \in Branch \cup {NoBranch}, SwitchBranch(n, b)
     PROVE  BirthInv'
  BY <1>2 DEF SwitchBranch, work, history
<1>3. ASSUME NEW b \in Branch, OpenPull(b)
     PROVE  BirthInv'
  BY <1>3 DEF OpenPull, work, history
<1>4. ASSUME NEW b \in Branch, ClosePull(b)
     PROVE  BirthInv'
  BY <1>4 DEF ClosePull, work, history
<1>5. ASSUME NEW p \in Process, NEW n \in Lane, Prepare(p, n)
     PROVE  BirthInv'
  BY <1>5 DEF Prepare, Go, history
<1>6. ASSUME NEW p \in Process, ReadBirth(p)
     PROVE  BirthInv'
  BY <1>6 DEF ReadBirth, Go, Stamp, world
<1>7. ASSUME NEW p \in Process, NEW n \in Lane, Discover(p, n)
     PROVE  BirthInv'
  BY <1>7 DEF Discover, Go, world, history
<1>8. ASSUME NEW p \in Process, LookUpFinds(p)
     PROVE  BirthInv'
  BY <1>8 DEF LookUpFinds, Go, world
<1>9. ASSUME NEW p \in Process, LookUpFails(p)
     PROVE  BirthInv'
  BY <1>9 DEF LookUpFails, Go, world, history
<1>10. ASSUME NEW p \in Process, NothingToAsk(p)
     PROVE  BirthInv'
  BY <1>10 DEF NothingToAsk, Go, world, history
<1>11. ASSUME NEW p \in Process, ReadAgain(p)
     PROVE  BirthInv'
  <2>1. CASE Readable(file[at[p]])
    <3>1. Refreshed(file[at[p]], found[p]).born = file[at[p]].born
      BY <1>11, <2>1, ReadableIsRecord, RefreshedIsRecord DEF ReadAgain, Found
    <3>2. /\ draft' = [draft EXCEPT ![p] = Refreshed(file[at[p]], found[p])]
          /\ pc' = [pc EXCEPT ![p] = "refreshing"]
          /\ UNCHANGED <<at, file, lost>> /\ pc[p] = "found"
      BY <1>11, <2>1 DEF ReadAgain, Go
    <3> QED
      BY <2>1, <3>1, <3>2
  <2>2. CASE ~Readable(file[at[p]])
    <3>1. Rest(p) /\ UNCHANGED <<file, lost>>
      BY <1>11, <2>2 DEF ReadAgain
    <3> QED
      BY <3>1 DEF Rest, Go
  <2> QED
    BY <2>1, <2>2
<1>12. ASSUME NEW p \in Process, Truncate(p)
     PROVE  BirthInv'
  BY <1>12 DEF Truncate, Go, world, history
<1>13. ASSUME NEW p \in Process, WriteStamp(p)
     PROVE  BirthInv'
  BY <1>13 DEF WriteStamp, Content, Writers, Reports, Rest, Go, world
<1>14. ASSUME NEW p \in Process, WriteRefresh(p)
     PROVE  BirthInv'
  BY <1>14 DEF WriteRefresh, Content, Writers, Rest, Go, world
<1>15. ASSUME NEW p \in Process, EndEarly(p)
     PROVE  BirthInv'
  BY <1>15 DEF EndEarly, Rest, Go, world
<1> QED
  BY <1>1, <1>2, <1>3, <1>4, <1>5, <1>6, <1>7, <1>8,
     <1>9, <1>10, <1>11, <1>12, <1>13, <1>14, <1>15
  DEF Next, World, Setup, Report

\* The invariant gives the property.
LEMMA BirthInvKeeps == BirthInv => BirthKept
<1> SUFFICES ASSUME BirthInv, NEW n \in Lane \ lost,
                    NEW r \in {file[n]} \cup
                              {draft[p] : p \in {q \in Process : at[q] = n}},
                    NEW s \in {file[n]} \cup
                              {draft[p] : p \in {q \in Process : at[q] = n}},
                    Readable(r), Readable(s)
             PROVE  r.born = s.born
  BY DEF BirthKept
<1> DEFINE Mine(x) == \E p \in Process : /\ at[p] = n /\ x = draft[p]
                                        /\ pc[p] \in Drafting
<1>1. (r = file[n] \/ Mine(r)) /\ (s = file[n] \/ Mine(s))
  BY DEF BirthInv, Readable
<1>2. CASE r = file[n] /\ s = file[n]
  BY <1>2
<1>3. CASE Mine(r) /\ s = file[n]
  BY <1>3 DEF BirthInv
<1>4. CASE r = file[n] /\ Mine(s)
  BY <1>4 DEF BirthInv
<1>5. CASE Mine(r) /\ Mine(s)
  <2>1. PICK p \in Process : at[p] = n /\ r = draft[p] /\ pc[p] \in Drafting
    BY <1>5
  <2>2. PICK q \in Process : at[q] = n /\ s = draft[q] /\ pc[q] \in Drafting
    BY <1>5
  <2>3. at[p] = at[q] /\ {pc[p], pc[q]} \subseteq Drafting /\ at[p] \notin lost
    BY <2>1, <2>2
  <2> QED
    BY <2>1, <2>2, <2>3 DEF BirthInv
<1> QED
  BY <1>1, <1>2, <1>3, <1>4, <1>5

\* For any number of reports and setups, in any order: a lane keeps its time of
\* creation, until a setup meets a record it cannot read.
THEOREM BirthHolds == Spec => []BirthKept
<1>1. Spec => []BirthInv
  BY BirthInit, BirthStep, PTL DEF Spec
<1> QED
  BY <1>1, BirthInvKeeps, PTL
=============================================================================
