------------------------ MODULE ContentRuntimeProofs ------------------------
(***************************************************************************)
(* The content runtime for all constants: type correctness, what an         *)
(* undisturbed preparation leaves, that no module stays missing once         *)
(* preparations are complete, and what the doctor's verdict is worth.        *)
(***************************************************************************)
EXTENDS ContentRuntime, TLAPS

LEMMA StepsAre ==
  /\ Len(Steps) \in Nat \ {0} /\ DOMAIN Steps = 1..Len(Steps)
  /\ \A i \in 1..Len(Steps) : Steps[i] \in Module
  /\ \A m \in Module : \E i \in 1..Len(Steps) : m = Steps[i]
  /\ \A i, j \in 1..Len(Steps) : Steps[i] = Steps[j] => i = j
BY RuntimeAssumption DEF Module

LEMMA LengthIs == Len(Steps) \in Nat \ {0}
BY StepsAre

LEMMA ValidationsAre == Validations \in Nat \ {0}
BY RuntimeAssumption

\* Preparations still to go through: all of them while the doctor's own is
\* checked, at most those of the validations while it validates.
LeftInv ==
  \A p \in Process :
    /\ pc[p] \in {"check", "verify"} => left[p] = Validations + 1
    /\ pc[p] = "validate" => left[p] \in 1..Validations

LeftAt(s, n, l) ==
  /\ s \in Writing \cup {"invalidate"} => n > 0
  /\ s \in {"check", "verify"} => l = Validations + 1
  /\ s = "validate" => l \in 1..Validations

LEMMA Moves ==
  ASSUME StageTypeOK, LeftInv,
         NEW p \in Process, NEW s \in Stage, NEW n \in 0..Len(Steps),
         NEW l \in 0..Validations + 1, LeftAt(s, n, l),
         pc' = [pc EXCEPT ![p] = s], step' = [step EXCEPT ![p] = n],
         left' = [left EXCEPT ![p] = l]
  PROVE  StageTypeOK' /\ LeftInv'
<1>1. pc' \in [Process -> Stage] /\ step' \in [Process -> 0..Len(Steps)]
      /\ left' \in [Process -> 0..Validations + 1]
  BY DEF StageTypeOK
<1>2. ASSUME NEW q \in Process
      PROVE  LeftAt(pc'[q], step'[q], left'[q])
  BY DEF StageTypeOK, LeftInv, LeftAt
<1> QED
  BY <1>1, <1>2 DEF StageTypeOK, LeftInv, LeftAt

\* A command moves to stage s, its step and left as they are.
LEMMA Goes ==
  ASSUME StageTypeOK, LeftInv,
         NEW p \in Process, NEW s \in Stage, Go(p, s), UNCHANGED <<step, left>>,
         LeftAt(s, step[p], left[p])
  PROVE  StageTypeOK' /\ LeftInv'
<1>1. ASSUME NEW q \in Process
      PROVE  pc'[q] \in Stage /\ LeftAt(pc'[q], step'[q], left'[q])
  BY DEF StageTypeOK, LeftInv, LeftAt, Go
<1> QED
  BY <1>1 DEF StageTypeOK, LeftInv, LeftAt, Go

LEMMA Rests ==
  ASSUME StageTypeOK, DraftTypeOK, LeftInv, NEW p \in Process, Rest(p)
  PROVE  StageTypeOK' /\ LeftInv' /\ DraftTypeOK'
<1>1. LeftAt("idle", 0, 0) /\ "idle" \in Stage /\ 0 \in 0..Len(Steps)
      /\ 0 \in 0..Validations + 1
  BY LengthIs, ValidationsAre DEF LeftAt, Stage, Writing
<1>2. StageTypeOK' /\ LeftInv'
  BY <1>1, Moves DEF Rest, Go
<1> QED
  BY <1>2 DEF Rest, DraftTypeOK

\* A preparation begins, with l of the doctor's still to go through.
LEMMA Begins ==
  ASSUME StageTypeOK, LeftInv, NEW p \in Process, NEW l \in 0..Validations + 1,
         Begin(p), left' = [left EXCEPT ![p] = l]
  PROVE  StageTypeOK' /\ LeftInv'
<1>1. LeftAt("invalidate", 1, l) /\ "invalidate" \in Stage /\ 1 \in 0..Len(Steps)
  BY LengthIs DEF LeftAt, Stage, Writing
<1> QED
  BY <1>1, Moves DEF Begin, Go

LEMMA StepsDone ==
  ASSUME StageTypeOK, LeftInv, NEW p \in Process, pc[p] \in Writing,
         StepDone(p), UNCHANGED left
  PROVE  StageTypeOK' /\ LeftInv'
<1>1. left' = [left EXCEPT ![p] = left[p]] /\ left[p] \in 0..Validations + 1
      /\ step[p] \in 1..Len(Steps)
  BY LengthIs DEF StageTypeOK
<1>2. CASE step[p] < Len(Steps)
  <2>1. LeftAt("scan", step[p] + 1, left[p]) /\ "scan" \in Stage
        /\ step[p] + 1 \in 0..Len(Steps)
    BY <1>1, <1>2, LengthIs DEF LeftAt, Stage, Writing
  <2>2. pc' = [pc EXCEPT ![p] = "scan"] /\ step' = [step EXCEPT ![p] = step[p] + 1]
    BY <1>2 DEF StepDone, Go
  <2> QED
    BY <1>1, <2>1, <2>2, Moves
<1>3. CASE ~(step[p] < Len(Steps))
  <2>1. PICK s \in {"main", "check", "validate"} :
             /\ pc' = [pc EXCEPT ![p] = s] /\ step' = [step EXCEPT ![p] = 0]
             /\ s = "check" => left[p] = Validations + 1
             /\ s = "validate" => left[p] # 0 /\ left[p] # Validations + 1
    BY <1>3 DEF StepDone, Go
  <2>2. LeftAt(s, 0, left[p]) /\ s \in Stage /\ 0 \in 0..Len(Steps)
    BY <1>1, <2>1, LengthIs, ValidationsAre DEF LeftAt, Stage, Writing
  <2> QED
    BY <1>1, <2>1, <2>2, Moves
<1> QED
  BY <1>2, <1>3

LEMMA StageTyped ==
  ASSUME TypeOK, LeftInv, NEW p \in Process,
         StartCommand(p) \/ Prepare(p) \/ Main(p) \/ Doctor(p) \/ Fail(p)
  PROVE  StageTypeOK' /\ LeftInv' /\ DraftTypeOK'
<1> USE DEF TypeOK
<1>0. pc[p] \in Stage /\ step[p] \in 0..Len(Steps) /\ left[p] \in 0..Validations + 1
      /\ left = [left EXCEPT ![p] = left[p]]
  BY DEF StageTypeOK
<1>1. CASE StartCommand(p)
  <2>1. left' = [left EXCEPT ![p] = left[p]]
    BY <1>0, <1>1 DEF StartCommand
  <2> QED
    BY <1>0, <1>1, <2>1, Begins DEF StartCommand, DraftTypeOK
<1>2. CASE Invalidate(p)
  <2>1. PICK s \in {"invalidate", "scan"}, n \in 1..Len(Steps) :
             pc' = [pc EXCEPT ![p] = s] /\ step' = [step EXCEPT ![p] = n]
    <3>1. CASE step[p] = Len(Steps)
      <4>1. 1 \in 1..Len(Steps)
        BY LengthIs
      <4> QED
        BY <1>2, <3>1, <4>1 DEF Invalidate, Go
    <3>2. CASE step[p] # Len(Steps)
      <4>1. step[p] + 1 \in 1..Len(Steps)
        BY <1>0, <3>2, LengthIs
      <4> QED
        BY <1>2, <3>2, <4>1 DEF Invalidate, Go
    <3> QED
      BY <3>1, <3>2
  <2>2. LeftAt(s, n, left[p]) /\ s \in Stage /\ n \in 0..Len(Steps)
        /\ left' = [left EXCEPT ![p] = left[p]]
    BY <1>0, <1>2, LengthIs DEF LeftAt, Stage, Writing, Invalidate
  <2>3. StageTypeOK' /\ LeftInv'
    BY <1>0, <2>1, <2>2, Moves
  <2> QED
    BY <1>2, <2>3 DEF Invalidate, DraftTypeOK
<1>3. CASE Scan(p)
  <2>1. step[p] > 0
    BY <1>3 DEF Scan, StageTypeOK, Writing
  <2>2. PICK s \in {"compare", "write"} : Go(p, s)
    BY <1>3 DEF Scan
  <2>3. LeftAt(s, step[p], left[p]) /\ s \in Stage
    BY <2>1 DEF LeftAt, Stage, Writing
  <2>4. StageTypeOK' /\ LeftInv'
    BY <1>3, <2>2, <2>3, Goes DEF Scan
  <2>5. Listing(Steps[step[p]], work) \in SUBSET Page
    BY DEF Listing, FilesTypeOK
  <2> QED
    BY <1>3, <2>4, <2>5 DEF Scan, DraftTypeOK
<1>4. CASE Compare(p)
  <2>1. DraftTypeOK' /\ UNCHANGED left
    BY <1>4 DEF Compare, DraftTypeOK
  <2>2. CASE StepDone(p)
    BY <1>4, <2>1, <2>2, StepsDone DEF Compare, Writing
  <2>3. CASE Go(p, "write") /\ UNCHANGED step
    <3>1. LeftAt("write", step[p], left[p]) /\ "write" \in Stage
      BY <1>4 DEF Compare, LeftAt, Stage, Writing, StageTypeOK
    <3> QED
      BY <2>1, <2>3, <3>1, Goes
  <2> QED
    BY <1>4, <2>2, <2>3 DEF Compare
<1>5. CASE OpenToWrite(p)
  <2>1. LeftAt("fill", step[p], left[p]) /\ "fill" \in Stage
    BY <1>5 DEF OpenToWrite, LeftAt, Stage, Writing, StageTypeOK
  <2> QED
    BY <1>5, <2>1, Goes DEF OpenToWrite, DraftTypeOK
<1>6. CASE Fill(p)
  BY <1>6, StepsDone DEF Fill, Writing, DraftTypeOK
<1>7. CASE Main(p)
  BY <1>7, Rests DEF Main
<1>8. CASE Fail(p)
  BY <1>8, Rests DEF Fail
<1>9. CASE StartDoctor(p)
  <2>1. Validations + 1 \in 0..Validations + 1
    BY ValidationsAre
  <2> QED
    BY <1>9, <2>1, Begins DEF StartDoctor, DraftTypeOK
<1>10. CASE CheckDrift(p)
  <2>1. CASE Rest(p)
    BY <2>1, Rests
  <2>2. CASE Go(p, "verify") /\ UNCHANGED <<step, left, draft, unlinked>>
    <3>1. LeftAt("verify", step[p], left[p]) /\ "verify" \in Stage
      BY <1>10 DEF CheckDrift, LeftAt, Stage, Writing, LeftInv
    <3> QED
      BY <2>2, <3>1, Goes DEF DraftTypeOK
  <2> QED
    BY <1>10, <2>1, <2>2 DEF CheckDrift
<1>11. CASE VerifyCompleteness(p)
  <2>1. CASE Rest(p)
    BY <2>1, Rests
  <2>2. CASE Begin(p) /\ left' = [left EXCEPT ![p] = @ - 1] /\ UNCHANGED <<draft, unlinked>>
    <3>1. left[p] - 1 \in 0..Validations + 1
      BY <1>11, ValidationsAre DEF VerifyCompleteness, LeftInv
    <3> QED
      BY <2>2, <3>1, Begins DEF DraftTypeOK
  <2> QED
    BY <1>11, <2>1, <2>2 DEF VerifyCompleteness
<1>12. CASE Validate(p)
  <2>1. left[p] - 1 \in 0..Validations + 1 /\ DraftTypeOK'
        /\ left' = [left EXCEPT ![p] = left[p] - 1]
    BY <1>12, ValidationsAre DEF Validate, LeftInv, DraftTypeOK
  <2>2. CASE Begin(p)
    BY <2>1, <2>2, Begins
  <2>3. CASE Go(p, "final") /\ UNCHANGED step
    <3>1. LeftAt("final", step[p], left[p] - 1) /\ "final" \in Stage
          /\ step' = [step EXCEPT ![p] = step[p]]
      BY <2>3 DEF LeftAt, Stage, Writing, StageTypeOK
    <3> QED
      BY <1>0, <2>1, <2>3, <3>1, Moves DEF Go
  <2> QED
    BY <1>12, <2>2, <2>3 DEF Validate
<1>13. CASE Final(p)
  <2>1. CASE Rest(p)
    BY <2>1, Rests
  <2>2. CASE Go(p, "proved") /\ UNCHANGED <<step, left, draft, unlinked>>
    <3>1. LeftAt("proved", step[p], left[p]) /\ "proved" \in Stage
      BY DEF LeftAt, Stage, Writing
    <3> QED
      BY <2>2, <3>1, Goes DEF DraftTypeOK
  <2> QED
    BY <1>13, <2>1, <2>2 DEF Final
<1>14. CASE Report(p)
  BY <1>14, Rests DEF Report
<1> QED
  BY <1>1, <1>2, <1>3, <1>4, <1>5, <1>6, <1>7, <1>8, <1>9, <1>10, <1>11, <1>12, <1>13, <1>14
  DEF Prepare, Doctor

LEMMA InitTyped == Init => TypeOK /\ LeftInv
<1> SUFFICES ASSUME Init PROVE TypeOK /\ LeftInv
  OBVIOUS
<1>1. FilesTypeOK
  BY RuntimeAssumption DEF Init, FilesTypeOK, File, Listing
<1>2. StageTypeOK /\ DraftTypeOK /\ LeftInv
  BY LengthIs, ValidationsAre
  DEF Init, StageTypeOK, DraftTypeOK, LeftInv, Stage, Writing
<1>3. CountTypeOK
  BY RuntimeAssumption DEF Init, CountTypeOK
<1> QED
  BY <1>1, <1>2, <1>3 DEF TypeOK

LEMMA AuthorTyped ==
  ASSUME TypeOK, LeftInv, Author
  PROVE  TypeOK' /\ LeftInv'
<1>1. FilesTypeOK' /\ CountTypeOK' /\ UNCHANGED <<pc, step, left, draft, unlinked>>
  BY RuntimeAssumption
  DEF TypeOK, FilesTypeOK, CountTypeOK, Author, AddFile, DeleteFile, Commit, Edit
<1> QED
  BY <1>1 DEF TypeOK, StageTypeOK, DraftTypeOK, LeftInv

LEMMA FilesTyped ==
  ASSUME TypeOK, NEW p \in Process,
         StartCommand(p) \/ Prepare(p) \/ Main(p) \/ Doctor(p) \/ Fail(p)
  PROVE  FilesTypeOK' /\ CountTypeOK'
<1> USE DEF TypeOK, FilesTypeOK, author
<1>1. FilesTypeOK'
  <2>1. CASE Invalidate(p)
    BY <2>1 DEF Invalidate, File
  <2>2. CASE OpenToWrite(p)
    BY <2>2 DEF OpenToWrite, File
  <2>3. CASE Fill(p)
    BY <2>3 DEF Fill, File, DraftTypeOK
  <2>4. CASE ~(Invalidate(p) \/ OpenToWrite(p) \/ Fill(p))
    <3>1. UNCHANGED <<author, out>>
      BY <2>4 DEF Prepare, Doctor, StartCommand, Scan, Compare, Main, Fail, StartDoctor,
         CheckDrift, VerifyCompleteness, Validate, Final, Report
    <3> QED
      BY <3>1
  <2> QED
    BY <2>1, <2>2, <2>3, <2>4
<1>2. alone' \subseteq Process /\ incomplete' \in BOOLEAN
  <2>1. CASE Invalidate(p)
    BY <2>1 DEF Invalidate, CountTypeOK
  <2>2. CASE Fail(p)
    BY <2>2 DEF Fail, CountTypeOK
  <2>3. CASE ~(Invalidate(p) \/ Fail(p))
    <3>1. UNCHANGED <<alone, incomplete>>
      BY <2>3 DEF Prepare, Doctor, StartCommand, Scan, Compare, OpenToWrite, Fill, Main,
         StartDoctor, CheckDrift, VerifyCompleteness, Validate, Final, Report, history
    <3> QED
      BY <3>1 DEF CountTypeOK
  <2> QED
    BY <2>1, <2>2, <2>3
<1>3. edits' \in 0..MaxEdits /\ failures' \in 0..MaxFailures
  <2>1. CASE Fail(p)
    BY <2>1, RuntimeAssumption DEF Fail, CountTypeOK
  <2>2. CASE ~Fail(p)
    <3>1. UNCHANGED <<edits, failures>>
      BY <2>2 DEF Prepare, Doctor, StartCommand, Invalidate, Scan, Compare, OpenToWrite, Fill,
         Main, StartDoctor, CheckDrift, VerifyCompleteness, Validate, Final, Report
    <3> QED
      BY <3>1 DEF CountTypeOK
  <2> QED
    BY <2>1, <2>2
<1> QED
  BY <1>1, <1>2, <1>3 DEF CountTypeOK

LEMMA Typed ==
  ASSUME TypeOK, LeftInv, [Next]_vars
  PROVE  TypeOK' /\ LeftInv'
<1>1. CASE Author
  BY <1>1, AuthorTyped
<1>2. ASSUME NEW p \in Process,
             StartCommand(p) \/ Prepare(p) \/ Main(p) \/ Doctor(p) \/ Fail(p)
      PROVE  TypeOK' /\ LeftInv'
  BY <1>2, StageTyped, FilesTyped DEF TypeOK
<1>3. CASE UNCHANGED vars
  BY <1>3 DEF vars, author, history, TypeOK, FilesTypeOK, StageTypeOK, DraftTypeOK,
     CountTypeOK, LeftInv
<1> QED
  BY <1>1, <1>2, <1>3 DEF Next

\* Every state has the types the code keeps: a step within the list of
\* generators, and one of them while a preparation runs.
THEOREM TypeCorrect == Spec => []TypeOK
<1>1. TypeOK /\ LeftInv /\ [Next]_vars => TypeOK' /\ LeftInv'
  BY Typed
<1> QED
  BY InitTyped, <1>1, PTL DEF Spec

LEMMA TypesHold == Spec => [](TypeOK /\ LeftInv)
<1>1. TypeOK /\ LeftInv /\ [Next]_vars => TypeOK' /\ LeftInv'
  BY Typed
<1> QED
  BY InitTyped, <1>1, PTL DEF Spec

-----------------------------------------------------------------------------
(* What an undisturbed preparation has brought about                       *)

Prepared == {"main", "check", "verify", "validate", "final", "proved"}

\* Only a process that writes can have lost the file under its hands.
UnlinkedInv == \A p \in unlinked : pc[p] = "fill"

\* Nobody else prepares; the modules p has passed are fresh, and what it
\* will write to the next is too.
Undisturbed(p) ==
  /\ \A q \in Process \ {p} : q \notin alone /\ ~Preparing(q)
  /\ pc[p] \in Writing =>
       \A i \in 1..Len(Steps) :
         i < step[p] => out[Steps[i]] = Listing(Steps[i], work)
  /\ pc[p] \in Writing \ {"scan"} => draft[p] = Listing(Steps[step[p]], work)
  /\ pc[p] = "fill" => out[Steps[step[p]]] = Torn /\ p \notin unlinked
  /\ pc[p] \in Prepared => \A m \in Module : out[m] = Listing(m, work)
  /\ pc[p] = "proved" => Clean

AloneInv == \A p \in alone : Undisturbed(p)

\* p will write the i-th module, into the file of that name.
Generates(p, i) ==
  /\ Preparing(p)
  /\ pc[p] = "invalidate" \/ step[p] <= i
  /\ ~(p \in unlinked /\ step[p] = i)

MissingInv ==
  \A i \in 1..Len(Steps) :
    out[Steps[i]] = Missing => incomplete \/ \E p \in Process : Generates(p, i)

SafeInv == UnlinkedInv /\ AloneInv /\ MissingInv

\* p does not prepare, and what it does touches no file and no other process.
StandsAside(p) ==
  /\ UNCHANGED <<work, head, headOut, out, alone>>
  /\ \A q \in Process \ {p} :
       pc'[q] = pc[q] /\ step'[q] = step[q] /\ draft'[q] = draft[q]
  /\ unlinked' \subseteq unlinked \ {p}
  /\ pc'[p] \in {"idle"} \cup Prepared \/ (pc'[p] = "invalidate" /\ step'[p] = 1)
  /\ pc'[p] \in Prepared => pc[p] \in Prepared
  /\ pc'[p] = "proved" => Clean
  /\ incomplete \/ Preparing(p) => incomplete'

LEMMA Asides ==
  ASSUME TypeOK, UnlinkedInv, NEW p \in Process,
         StartCommand(p) \/ Main(p) \/ Doctor(p) \/ Fail(p)
  PROVE  StandsAside(p)
<1> USE DEF TypeOK, StageTypeOK, DraftTypeOK, StandsAside, author, history, Go, Begin, Rest,
        Prepared, Preparing, Writing, UnlinkedInv
<1>1. CASE StartCommand(p)
  BY <1>1 DEF StartCommand
<1>2. CASE Main(p)
  BY <1>2 DEF Main
<1>3. CASE Fail(p)
  BY <1>3 DEF Fail
<1>4. CASE StartDoctor(p)
  BY <1>4 DEF StartDoctor
<1>5. CASE CheckDrift(p)
  <2>1. CASE Clean
    BY <1>5, <2>1 DEF CheckDrift
  <2>2. CASE ~Clean
    BY <1>5, <2>2 DEF CheckDrift
  <2> QED
    BY <2>1, <2>2
<1>6. CASE VerifyCompleteness(p)
  <2>1. CASE Begin(p) /\ UNCHANGED <<draft, unlinked>>
    BY <1>6, <2>1 DEF VerifyCompleteness
  <2>2. CASE Rest(p)
    BY <1>6, <2>2 DEF VerifyCompleteness
  <2> QED
    BY <1>6, <2>1, <2>2 DEF VerifyCompleteness
<1>7. CASE Validate(p)
  BY <1>7 DEF Validate
<1>8. CASE Final(p)
  <2>1. CASE Clean
    BY <1>8, <2>1 DEF Final
  <2>2. CASE ~Clean
    BY <1>8, <2>2 DEF Final
  <2> QED
    BY <2>1, <2>2
<1>9. CASE Report(p)
  BY <1>9 DEF Report
<1> QED
  BY <1>1, <1>2, <1>3, <1>4, <1>5, <1>6, <1>7, <1>8, <1>9 DEF Doctor

LEMMA AsideSafe ==
  ASSUME TypeOK, SafeInv, NEW p \in Process, StandsAside(p)
  PROVE  SafeInv'
<1> USE DEF TypeOK, FilesTypeOK, StageTypeOK, CountTypeOK, SafeInv
<1>1. UnlinkedInv'
  BY DEF StandsAside, UnlinkedInv, DraftTypeOK
<1>2. ASSUME NEW q \in alone
      PROVE  Undisturbed(q)'
  <2>1. Undisturbed(q)
    BY DEF AloneInv
  <2>2. ~Preparing(p)'
    BY DEF StandsAside, Preparing, Writing, Prepared
  <2>3. CASE q = p
    BY <2>1, <2>2, <2>3
    DEF StandsAside, Undisturbed, Preparing, Writing, Prepared, Clean
  <2>4. CASE q # p
    BY <2>1, <2>2, <2>4
    DEF StandsAside, Undisturbed, Preparing, Writing, Prepared, Clean
  <2> QED
    BY <2>3, <2>4
<1>3. MissingInv'
  <2> SUFFICES ASSUME NEW i \in 1..Len(Steps), out'[Steps[i]] = Missing
               PROVE  incomplete' \/ \E q \in Process : Generates(q, i)'
    BY DEF MissingInv
  <2>1. incomplete \/ \E q \in Process : Generates(q, i)
    BY DEF MissingInv, StandsAside
  <2>2. ASSUME NEW q \in Process, Generates(q, i), q # p
        PROVE  Generates(q, i)'
    BY <2>2 DEF Generates, StandsAside, Preparing
  <2> QED
    BY <2>1, <2>2 DEF StandsAside, Generates
<1> QED
  BY <1>1, <1>2, <1>3 DEF AloneInv, StandsAside

LEMMA AuthorSafe ==
  ASSUME TypeOK, SafeInv, Author
  PROVE  SafeInv'
<1>1. alone' = {} /\ UNCHANGED <<out, pc, step, unlinked, incomplete>>
  BY DEF Author, AddFile, DeleteFile, Commit, Edit
<1> QED
  BY <1>1 DEF SafeInv, UnlinkedInv, AloneInv, MissingInv, Generates, Preparing

LEMMA InvalidateSafe ==
  ASSUME TypeOK, SafeInv, NEW p \in Process, Invalidate(p)
  PROVE  SafeInv'
<1> USE DEF TypeOK, SafeInv
<1>1. step[p] \in 1..Len(Steps)
  BY DEF Invalidate, StageTypeOK
<1>2. /\ pc[p] = "invalidate"
      /\ \/ pc'[p] = "invalidate" /\ step'[p] > 1
         \/ pc'[p] = "scan" /\ step'[p] = 1
      /\ \A q \in Process \ {p} :
           pc'[q] = pc[q] /\ step'[q] = step[q] /\ draft'[q] = draft[q]
  <2>1. pc' = [pc EXCEPT ![p] = IF step[p] = Len(Steps) THEN "scan" ELSE "invalidate"]
        /\ step' = [step EXCEPT ![p] = IF step[p] = Len(Steps) THEN 1 ELSE step[p] + 1]
        /\ pc[p] = "invalidate" /\ draft' = draft
    BY DEF Invalidate, Go, StageTypeOK
  <2> QED
    BY <1>1, <2>1, LengthIs DEF StageTypeOK
<1>3. UnlinkedInv' /\ p \notin unlinked'
  <2>1. unlinked' \subseteq unlinked \cup {q \in Process : pc[q] = "fill"}
    BY DEF Invalidate
  <2> QED
    BY <1>2, <2>1 DEF UnlinkedInv, DraftTypeOK
<1>4. ASSUME NEW q \in alone'
      PROVE  Undisturbed(q)'
  <2>1. q = p /\ \A r \in Process \ {p} : r \notin alone' /\ ~Preparing(r)
    <3>1. CASE step[p] = 1
      BY <3>1, <1>4 DEF Invalidate
    <3>2. CASE step[p] # 1
      <4>1. q \in alone /\ Preparing(p) /\ alone' = alone
        BY <1>1, <1>2, <1>4, <3>2 DEF Invalidate, Preparing
      <4>2. Undisturbed(q)
        BY <4>1 DEF AloneInv
      <4> QED
        BY <4>1, <4>2 DEF Undisturbed, CountTypeOK
    <3> QED
      BY <3>1, <3>2
  <2> QED
    BY <1>2, <2>1 DEF Undisturbed, Preparing, Writing, Prepared
<1>5. ASSUME NEW i \in 1..Len(Steps)
      PROVE  Generates(p, i)'
  BY <1>2, <1>3 DEF Generates, Preparing, Writing
<1> QED
  BY <1>3, <1>4, <1>5 DEF AloneInv, MissingInv

\* Only one process is alone, and then no other prepares.
LEMMA AloneIs ==
  ASSUME TypeOK, AloneInv, NEW p \in Process, Preparing(p)
  PROVE  alone \subseteq {p}
BY DEF TypeOK, CountTypeOK, AloneInv, Undisturbed

LEMMA ScanSafe ==
  ASSUME TypeOK, SafeInv, NEW p \in Process, Scan(p)
  PROVE  SafeInv'
<1> USE DEF TypeOK, SafeInv
<1>1. /\ pc[p] = "scan" /\ pc'[p] \in {"compare", "write"}
      /\ draft'[p] = Listing(Steps[step[p]], work)
      /\ \A q \in Process \ {p} : pc'[q] = pc[q] /\ draft'[q] = draft[q]
      /\ UNCHANGED <<work, head, headOut, out, step, unlinked, alone, incomplete>>
  BY DEF Scan, Go, StageTypeOK, DraftTypeOK, author, history
<1>2. UnlinkedInv'
  BY <1>1 DEF UnlinkedInv, DraftTypeOK
<1>3. alone \subseteq {p}
  BY <1>1, AloneIs DEF Preparing, Writing
<1>4. ASSUME p \in alone
      PROVE  Undisturbed(p)'
  <2>1. Undisturbed(p)
    BY <1>4 DEF AloneInv
  <2> QED
    BY <1>1, <2>1 DEF Undisturbed, Preparing, Writing, Prepared
<1>5. ASSUME NEW q \in Process, NEW i \in 1..Len(Steps), Generates(q, i)
      PROVE  Generates(q, i)'
  BY <1>1, <1>5 DEF Generates, Preparing, Writing
<1> QED
  BY <1>1, <1>2, <1>3, <1>4, <1>5 DEF AloneInv, MissingInv

LEMMA Advances ==
  ASSUME TypeOK, NEW p \in Process, pc[p] \in Writing, StepDone(p)
  PROVE  /\ step[p] \in 1..Len(Steps)
         /\ \/ pc'[p] = "scan" /\ step'[p] = step[p] + 1
            \/ pc'[p] \in {"main", "check", "validate"} /\ step[p] = Len(Steps)
         /\ \A q \in Process \ {p} : pc'[q] = pc[q] /\ step'[q] = step[q]
<1> USE DEF TypeOK, StageTypeOK, Go
<1>1. step[p] \in 1..Len(Steps)
  BY LengthIs
<1>2. CASE step[p] < Len(Steps)
  BY <1>1, <1>2 DEF StepDone
<1>3. CASE ~(step[p] < Len(Steps))
  BY <1>1, <1>3 DEF StepDone
<1> QED
  BY <1>1, <1>2, <1>3

\* Once its generator is done, a fresh module is one more that p has passed.
LEMMA AdvanceFresh ==
  ASSUME TypeOK, NEW p \in Process, pc[p] \in Writing, StepDone(p),
         \A i \in 1..Len(Steps) :
           i <= step[p] => out'[Steps[i]] = Listing(Steps[i], work'),
         \A q \in Process \ {p} : q \notin alone' /\ ~Preparing(q)
  PROVE  Undisturbed(p)'
<1>1. \A q \in Process \ {p} : q \notin alone' /\ ~Preparing(q)'
  BY Advances DEF Preparing
<1>2. CASE pc'[p] = "scan" /\ step'[p] = step[p] + 1
  BY <1>1, <1>2, Advances DEF Undisturbed, Writing, Prepared
<1>3. CASE pc'[p] \in {"main", "check", "validate"} /\ step[p] = Len(Steps)
  <2>1. \A m \in Module : out'[m] = Listing(m, work')
    BY <1>3, StepsAre
  <2> QED
    BY <1>1, <1>3, <2>1 DEF Undisturbed, Writing, Prepared
<1> QED
  BY <1>2, <1>3, Advances

LEMMA CompareSafe ==
  ASSUME TypeOK, SafeInv, NEW p \in Process, Compare(p)
  PROVE  SafeInv'
<1> USE DEF TypeOK, SafeInv
<1>1. /\ pc[p] = "compare" /\ step[p] \in 1..Len(Steps)
      /\ UNCHANGED <<work, head, headOut, out, draft, unlinked, alone, incomplete>>
  BY DEF Compare, author, history, StageTypeOK, Writing
<1>2. alone \subseteq {p} /\ p \notin unlinked
  BY <1>1, AloneIs DEF Preparing, Writing, UnlinkedInv
<1>3. CASE out[Steps[step[p]]] = draft[p] /\ StepDone(p)
  <2>1. UnlinkedInv'
    BY <1>1, <1>2, <1>3, Advances DEF UnlinkedInv, DraftTypeOK, Writing
  <2>2. ASSUME p \in alone
        PROVE  Undisturbed(p)'
    <3>1. Undisturbed(p)
      BY <2>2 DEF AloneInv
    <3>2. \A i \in 1..Len(Steps) :
            i <= step[p] => out'[Steps[i]] = Listing(Steps[i], work')
      BY <1>1, <1>3, <3>1 DEF Undisturbed, Writing
    <3>3. \A q \in Process \ {p} : q \notin alone' /\ ~Preparing(q)
      BY <1>1, <3>1 DEF Undisturbed
    <3> QED
      BY <1>1, <1>3, <3>2, <3>3, AdvanceFresh DEF Writing
  <2>3. ASSUME NEW i \in 1..Len(Steps), out[Steps[i]] = Missing,
               NEW q \in Process, Generates(q, i)
        PROVE  Generates(q, i)'
    <3>1. q # p => Generates(q, i)'
      BY <1>1, <1>3, <2>3, Advances DEF Generates, Preparing, Writing
    <3>2. ASSUME q = p
          PROVE  step[p] < i
      <4>1. step[p] <= i
        BY <1>1, <2>3, <3>2 DEF Generates
      <4>2. out[Steps[step[p]]] # Missing
        BY <1>3, FileAssumption DEF DraftTypeOK
      <4> QED
        BY <1>1, <2>3, <4>1, <4>2
    <3>3. ASSUME q = p
          PROVE  Generates(q, i)'
      <4>1. pc'[p] = "scan" /\ step'[p] = step[p] + 1
        BY <1>1, <1>3, <3>2, <3>3, Advances DEF Writing
      <4> QED
        BY <1>1, <1>2, <3>2, <3>3, <4>1 DEF Generates, Preparing, Writing
    <3> QED
      BY <3>1, <3>3
  <2> QED
    BY <1>1, <1>2, <2>1, <2>2, <2>3 DEF AloneInv, MissingInv
<1>4. CASE out[Steps[step[p]]] # draft[p] /\ Go(p, "write") /\ UNCHANGED step
  <2>1. pc'[p] = "write" /\ \A q \in Process \ {p} : pc'[q] = pc[q]
    BY <1>4 DEF Go, StageTypeOK
  <2>2. UnlinkedInv'
    BY <1>1, <1>2, <2>1 DEF UnlinkedInv, DraftTypeOK
  <2>3. ASSUME p \in alone
        PROVE  Undisturbed(p)'
    <3>1. Undisturbed(p)
      BY <2>3 DEF AloneInv
    <3> QED
      BY <1>1, <1>4, <2>1, <3>1 DEF Undisturbed, Preparing, Writing, Prepared
  <2>4. ASSUME NEW q \in Process, NEW i \in 1..Len(Steps), Generates(q, i)
        PROVE  Generates(q, i)'
    BY <1>1, <1>4, <2>1, <2>4 DEF Generates, Preparing, Writing
  <2> QED
    BY <1>1, <1>2, <2>2, <2>3, <2>4 DEF AloneInv, MissingInv
<1> QED
  BY <1>3, <1>4 DEF Compare

LEMMA OpenSafe ==
  ASSUME TypeOK, SafeInv, NEW p \in Process, OpenToWrite(p)
  PROVE  SafeInv'
<1> USE DEF TypeOK, SafeInv
<1>1. /\ pc[p] = "write" /\ pc'[p] = "fill" /\ step[p] \in 1..Len(Steps)
      /\ \A q \in Process \ {p} : pc'[q] = pc[q]
      /\ out' = [out EXCEPT ![Steps[step[p]]] = Torn]
      /\ UNCHANGED <<work, head, headOut, step, draft, unlinked, alone, incomplete>>
  BY DEF OpenToWrite, Go, StageTypeOK, author, history, Writing
<1>2. alone \subseteq {p} /\ p \notin unlinked
  BY <1>1, AloneIs DEF Preparing, Writing, UnlinkedInv
<1>3. UnlinkedInv'
  BY <1>1, <1>2 DEF UnlinkedInv, DraftTypeOK
<1>4. ASSUME NEW i \in 1..Len(Steps)
      PROVE  /\ i = step[p] => out'[Steps[i]] = Torn
             /\ i # step[p] => out'[Steps[i]] = out[Steps[i]]
  BY <1>1, StepsAre DEF FilesTypeOK
<1>5. ASSUME p \in alone
      PROVE  Undisturbed(p)'
  <2>1. Undisturbed(p)
    BY <1>5 DEF AloneInv
  <2> QED
    BY <1>1, <1>2, <1>4, <2>1 DEF Undisturbed, Preparing, Writing, Prepared
<1>6. ASSUME NEW q \in Process, NEW i \in 1..Len(Steps), Generates(q, i)
      PROVE  Generates(q, i)'
  BY <1>1, <1>6 DEF Generates, Preparing, Writing
<1> QED
  BY <1>1, <1>2, <1>3, <1>4, <1>5, <1>6, FileAssumption DEF AloneInv, MissingInv

LEMMA FillSafe ==
  ASSUME TypeOK, SafeInv, NEW p \in Process, Fill(p)
  PROVE  SafeInv'
<1> USE DEF TypeOK, SafeInv
<1>1. /\ pc[p] = "fill" /\ pc[p] \in Writing /\ StepDone(p)
      /\ UNCHANGED <<work, head, headOut, draft, alone, incomplete>>
      /\ unlinked' = unlinked \ {p}
  BY DEF Fill, author, history, Writing
<1>2. /\ step[p] \in 1..Len(Steps)
      /\ \/ pc'[p] = "scan" /\ step'[p] = step[p] + 1
         \/ pc'[p] \in {"main", "check", "validate"} /\ step[p] = Len(Steps)
      /\ \A q \in Process \ {p} : pc'[q] = pc[q] /\ step'[q] = step[q]
  BY <1>1, Advances
<1>3. alone \subseteq {p}
  BY <1>1, AloneIs DEF Preparing
<1>4. UnlinkedInv'
  BY <1>1, <1>2 DEF UnlinkedInv, DraftTypeOK
<1>5. PICK f \in {draft[p], Torn} :
        /\ p \notin unlinked => out' = [out EXCEPT ![Steps[step[p]]] = f]
        /\ p \in unlinked => out' = out
        /\ p \notin unlinked /\ out[Steps[step[p]]] = Torn => f = draft[p]
  <2>1. CASE p \in unlinked
    BY <2>1 DEF Fill
  <2>2. CASE p \notin unlinked
    BY <2>2 DEF Fill
  <2> QED
    BY <2>1, <2>2
<1>6. ASSUME NEW i \in 1..Len(Steps)
      PROVE  /\ i = step[p] /\ p \notin unlinked => out'[Steps[i]] = f
             /\ i # step[p] \/ p \in unlinked => out'[Steps[i]] = out[Steps[i]]
  BY <1>2, <1>5, StepsAre DEF FilesTypeOK
<1>7. ASSUME p \in alone
      PROVE  Undisturbed(p)'
  <2>1. Undisturbed(p)
    BY <1>7 DEF AloneInv
  <2>2. p \notin unlinked /\ f = draft[p]
    BY <1>1, <1>5, <2>1 DEF Undisturbed
  <2>3. \A i \in 1..Len(Steps) :
          i <= step[p] => out'[Steps[i]] = Listing(Steps[i], work')
    BY <1>1, <1>2, <1>6, <2>1, <2>2 DEF Undisturbed, Writing
  <2>4. \A q \in Process \ {p} : q \notin alone' /\ ~Preparing(q)
    BY <1>1, <2>1 DEF Undisturbed
  <2> QED
    BY <1>1, <2>3, <2>4, AdvanceFresh
<1>8. ASSUME NEW i \in 1..Len(Steps), out'[Steps[i]] = Missing,
             NEW q \in Process, Generates(q, i)
      PROVE  Generates(q, i)'
  <2>1. f # Missing
    BY FileAssumption DEF DraftTypeOK
  <2>2. CASE q # p
    BY <1>1, <1>2, <1>8, <2>2 DEF Generates, Preparing
  <2>3. CASE q = p
    <3>1. step[p] < i
      BY <1>1, <1>2, <1>6, <1>8, <2>1, <2>3 DEF Generates, Writing
    <3>2. pc'[p] = "scan" /\ step'[p] = step[p] + 1
      BY <1>2, <3>1
    <3> QED
      BY <1>1, <1>2, <2>3, <3>1, <3>2 DEF Generates, Preparing, Writing
  <2> QED
    BY <2>2, <2>3
<1>9. ASSUME NEW i \in 1..Len(Steps), out'[Steps[i]] = Missing
      PROVE  out[Steps[i]] = Missing
  BY <1>5, <1>6, <1>9, FileAssumption DEF DraftTypeOK
<1> QED
  BY <1>1, <1>3, <1>4, <1>7, <1>8, <1>9 DEF AloneInv, MissingInv

LEMMA SafeInductive ==
  ASSUME TypeOK, SafeInv, [Next]_vars
  PROVE  SafeInv'
<1>1. CASE Author
  BY <1>1, AuthorSafe
<1>2. ASSUME NEW p \in Process, StartCommand(p) \/ Main(p) \/ Doctor(p) \/ Fail(p)
      PROVE  SafeInv'
  BY <1>2, Asides, AsideSafe DEF SafeInv
<1>3. ASSUME NEW p \in Process, Prepare(p)
      PROVE  SafeInv'
  BY <1>3, InvalidateSafe, ScanSafe, CompareSafe, OpenSafe, FillSafe DEF Prepare
<1>4. CASE UNCHANGED vars
  BY <1>4 DEF vars, author, history, SafeInv, UnlinkedInv, AloneInv, MissingInv,
     Undisturbed, Generates, Preparing, Clean
<1> QED
  BY <1>1, <1>2, <1>3, <1>4 DEF Next

LEMMA SafeHolds == Spec => [](TypeOK /\ SafeInv)
<1>1. Init => SafeInv
  BY DEF Init, SafeInv, UnlinkedInv, AloneInv, MissingInv
<1>2. TypeOK /\ SafeInv /\ [Next]_vars => SafeInv'
  BY SafeInductive
<1> QED
  BY <1>1, <1>2, TypeCorrect, PTL DEF Spec

\* Whatever the commands before left behind, a main part, check or validation
\* not disturbed since its preparation began sees every module fresh.
THEOREM UndisturbedIsFresh == Spec => []RuntimeFresh
<1>1. TypeOK /\ SafeInv => RuntimeFresh
  BY DEF SafeInv, AloneInv, Undisturbed, RuntimeFresh, Prepared
<1> QED
  BY <1>1, SafeHolds, PTL

\* However many preparations overlap, the modules they delete are generated
\* again by one that is still on its way, unless one was cut short.
THEOREM ModulesReturn == Spec => []NothingMissing
<1>1. TypeOK /\ SafeInv => NothingMissing
  BY StepsAre DEF SafeInv, MissingInv, Generates, NothingMissing
<1> QED
  BY <1>1, SafeHolds, PTL

\* The doctor's verdict, undisturbed and with every content file known to git,
\* means that the branch's committed modules are those its content generates.
THEOREM VerdictIsTrue == Spec => []ReviewReady
<1>1. ASSUME TypeOK, SafeInv, NEW p \in alone, pc[p] = "proved", work \subseteq head,
             NEW m \in Committed
      PROVE  headOut[m] = Listing(m, head)
  <2>1. Undisturbed(p) /\ m \in Module
    BY <1>1, RuntimeAssumption DEF SafeInv, AloneInv
  <2>2. head = work /\ out[m] = headOut[m]
    BY <1>1, <2>1 DEF Undisturbed, Clean
  <2> QED
    BY <1>1, <2>1, <2>2 DEF Undisturbed, Prepared
<1>2. TypeOK /\ SafeInv => ReviewReady
  BY <1>1 DEF ReviewReady
<1> QED
  BY <1>2, SafeHolds, PTL
=============================================================================
