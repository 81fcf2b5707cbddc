---------------------- MODULE TranslationWriterProofs ----------------------
(***************************************************************************)
(* Proofs about the console's output, for every number of lines and every  *)
(* number of threads.                                                      *)
(***************************************************************************)
EXTENDS TranslationWriter, TLAPS

\* What the mutex means: its holder, and only its holder, is inside
\* writeTranslation.
LockHolder == \A i \in Jobs : OutputListLock = i <=> job[i] = "writing"

\* What waitForDone means: every job has handed over its line.
PoolIsDone == main \in {"finalizing", "exited"} => \A i \in Jobs : job[i] = "done"

\* A line that is not read yet has no job.
NotReadYet == \A i \in Jobs : i > Index => job[i] = "none"

\* The inductive strengthening of InputOrder.
IInv == /\ TypeOK
        /\ LockHolder
        /\ PoolIsDone
        /\ NotReadYet
        /\ HandedOverOnce
        /\ NothingHeldBack
        /\ LastSavedIndex <= Lines
        /\ Len(output) = LastSavedIndex
        /\ \A k \in 1..LastSavedIndex : output[k] = k

\* firstKey is the head of the pending lines: a nonempty set of numbers has a
\* least member.
LEMMA FirstKeyIsPending ==
    ASSUME TypeOK, LastSavedIndex + 1 \in PendingTranslations, HandedOverOnce
    PROVE  firstKey = LastSavedIndex + 1
<1>1. \A j \in PendingTranslations : j \in Nat /\ LastSavedIndex + 1 <= j
  BY LinesAssumption DEF TypeOK, HandedOverOnce, Jobs
<1>2. \A k \in PendingTranslations :
        (\A j \in PendingTranslations : k <= j) => k = LastSavedIndex + 1
  BY <1>1 DEF TypeOK
<1>3. QED
  BY <1>1, <1>2 DEF firstKey

\* What a write of the next line does to the written lines.
LEMMA WriteNextLine ==
    ASSUME IInv, LastSavedIndex + 1 \in Jobs, writeOutputLines(LastSavedIndex + 1)
    PROVE  /\ output' \in Seq(Jobs)
           /\ LastSavedIndex' = LastSavedIndex + 1
           /\ LastSavedIndex' \in Nat
           /\ LastSavedIndex' <= Lines
           /\ Len(output') = LastSavedIndex'
           /\ \A k \in 1..LastSavedIndex' : output'[k] = k
           /\ PendingTranslations' = PendingTranslations \ {LastSavedIndex + 1}
BY LinesAssumption DEF IInv, TypeOK, writeOutputLines, Jobs

LEMMA InitIInv == Init => IInv
BY LinesAssumption DEF Init, IInv, TypeOK, LockHolder, PoolIsDone, NotReadYet, HandedOverOnce,
   NothingHeldBack, Jobs, JobState, Active, Stopped

\* When the pool is done nothing is parked and every line is written: the
\* next line would be done, hence parked, and nobody holds the lock.
LEMMA NothingLeftToFinalize ==
    ASSUME IInv, \A i \in Jobs : job[i] = "done"
    PROVE  PendingTranslations = {} /\ LastSavedIndex = Lines
<1>1. OutputListLock = 0
  BY LinesAssumption DEF IInv, TypeOK, LockHolder, Jobs
<1>2. LastSavedIndex = Lines
  <2>1. SUFFICES ASSUME LastSavedIndex # Lines PROVE FALSE
    OBVIOUS
  <2>2. LastSavedIndex + 1 \in Jobs
    BY <2>1, LinesAssumption DEF IInv, TypeOK, Jobs
  <2>3. LastSavedIndex + 1 \in PendingTranslations
    BY <2>2 DEF IInv, TypeOK, HandedOverOnce
  <2>4. QED
    BY <1>1, <2>3 DEF IInv, NothingHeldBack
<1>3. QED
  BY <1>2, LinesAssumption DEF IInv, TypeOK, HandedOverOnce, Jobs

LEMMA NextIInv == IInv /\ [Next]_vars => IInv'
<1> SUFFICES ASSUME IInv, [Next]_vars PROVE IInv'
  OBVIOUS
<1> USE LinesAssumption DEF Jobs
<1>1. CASE StartJob
  BY <1>1 DEF StartJob, IInv, TypeOK, LockHolder, PoolIsDone, NotReadYet, HandedOverOnce, NothingHeldBack,
     JobState, Active, Stopped
<1>2. CASE EndOfInput
  BY <1>2 DEF EndOfInput, IInv, TypeOK, LockHolder, PoolIsDone, NotReadYet, HandedOverOnce, NothingHeldBack,
     JobState, Active, Stopped
<1>3. CASE PoolDone
  BY <1>3 DEF PoolDone, IInv, TypeOK, LockHolder, PoolIsDone, NotReadYet, HandedOverOnce, NothingHeldBack,
     JobState, Active, Stopped
<1>4. CASE finialize
  <2>1. PendingTranslations = {}
    BY <1>4, NothingLeftToFinalize DEF finialize, IInv, PoolIsDone
  <2>2. QED
    BY <1>4, <2>1 DEF finialize, IInv, TypeOK, LockHolder, PoolIsDone, NotReadYet, HandedOverOnce,
       NothingHeldBack, JobState, Active, Stopped
<1>5. ASSUME NEW i \in Jobs, RunJob(i) \/ Translate(i) \/ TranslateThrows(i) \/ WriteThrows(i)
      PROVE IInv'
  BY <1>5 DEF RunJob, Translate, TranslateThrows, WriteThrows, IInv, TypeOK, LockHolder,
     PoolIsDone, NotReadYet, HandedOverOnce, NothingHeldBack, JobState, Active, Stopped
<1>6. ASSUME NEW i \in Jobs, WriteOrPark(i) PROVE IInv'
  <2>1. main' = main /\ main \notin {"finalizing", "exited"} /\ Index' = Index
    BY <1>6 DEF WriteOrPark, IInv, PoolIsDone, Stopped
  <2>2. /\ job' \in [Jobs -> JobState]
        /\ LockHolder' /\ NotReadYet'
        /\ OutputListLock' = i
        /\ i \in Nat \ {0}
        /\ \A j \in Jobs : job'[j] \in {"writing", "done"} <=> (j = i \/ job[j] \in {"writing", "done"})
        /\ i \notin PendingTranslations /\ ~(i <= LastSavedIndex)
    BY <1>6 DEF WriteOrPark, IInv, TypeOK, LockHolder, NotReadYet, HandedOverOnce, JobState, Active
  <2>3. CASE i = LastSavedIndex + 1 /\ writeOutputLines(i)
    <3>1. /\ output' \in Seq(Jobs)
          /\ LastSavedIndex' = LastSavedIndex + 1
          /\ LastSavedIndex' \in Nat
          /\ LastSavedIndex' <= Lines
          /\ Len(output') = LastSavedIndex'
          /\ \A k \in 1..LastSavedIndex' : output'[k] = k
          /\ PendingTranslations' = PendingTranslations \ {LastSavedIndex + 1}
      BY <2>3, WriteNextLine
    <3>2. HandedOverOnce'
      BY <2>2, <2>3, <3>1 DEF IInv, TypeOK, HandedOverOnce
    <3>3. QED
      BY <2>1, <2>2, <3>1, <3>2 DEF IInv, TypeOK, PoolIsDone, NothingHeldBack
  <2>4. CASE /\ i # LastSavedIndex + 1
             /\ PendingTranslations' = PendingTranslations \cup {i}
             /\ UNCHANGED <<LastSavedIndex, output>>
    <3>1. HandedOverOnce'
      BY <2>2, <2>4 DEF IInv, TypeOK, HandedOverOnce
    <3>2. QED
      BY <2>1, <2>2, <2>4, <3>1 DEF IInv, TypeOK, PoolIsDone, NotReadYet, NothingHeldBack
  <2>5. QED
    BY <1>6, <2>3, <2>4 DEF WriteOrPark
<1>7. ASSUME NEW i \in Jobs, Drain(i) PROVE IInv'
  <2>1. /\ LastSavedIndex + 1 \in PendingTranslations
        /\ firstKey = LastSavedIndex + 1
    BY <1>7 DEF Drain, NextIsPending
  <2>2. /\ output' \in Seq(Jobs)
        /\ LastSavedIndex' = LastSavedIndex + 1
        /\ LastSavedIndex' \in Nat
        /\ LastSavedIndex' <= Lines
        /\ Len(output') = LastSavedIndex'
        /\ \A k \in 1..LastSavedIndex' : output'[k] = k
        /\ PendingTranslations' = PendingTranslations \ {LastSavedIndex + 1}
    BY <1>7, <2>1, WriteNextLine DEF Drain, IInv, TypeOK
  <2>3. UNCHANGED <<main, Index, job, OutputListLock>> /\ OutputListLock # 0
    BY <1>7 DEF Drain
  <2>4. HandedOverOnce'
    BY <2>1, <2>2, <2>3 DEF IInv, TypeOK, HandedOverOnce
  <2>5. QED
    BY <2>2, <2>3, <2>4 DEF IInv, TypeOK, LockHolder, PoolIsDone, NotReadYet, NothingHeldBack
<1>8. ASSUME NEW i \in Jobs, EndJob(i) PROVE IInv'
  <2>1. LastSavedIndex + 1 \notin PendingTranslations
    BY <1>8, FirstKeyIsPending DEF EndJob, NextIsPending, IInv
  <2>2. QED
    BY <1>8, <2>1 DEF EndJob, IInv, TypeOK, LockHolder, PoolIsDone, NotReadYet, HandedOverOnce,
       NothingHeldBack, JobState, Active, Stopped
<1>9. CASE UNCHANGED vars
  BY <1>9 DEF vars, IInv, TypeOK, LockHolder, PoolIsDone, NotReadYet, HandedOverOnce, NothingHeldBack
<1>10. QED
  BY <1>1, <1>2, <1>3, <1>4, <1>5, <1>6, <1>7, <1>8, <1>9 DEF Next, JobStep, Terminated

-----------------------------------------------------------------------------
LEMMA SpecIInv == Spec => []IInv
BY InitIInv, NextIInv, PTL DEF Spec

\* The variables of the console keep their types: what is parked or written is a line
\* of the input, and the mutex is free or a job's (TranslationWriter::OutputListLock).
THEOREM WriterTypes == Spec => []TypeOK
<1>1. IInv => TypeOK
  BY DEF IInv
<1>2. QED
  BY <1>1, SpecIInv, PTL

\* At every moment of every execution line k of the output is the translation
\* of line k of the input (TranslationWriter::writeTranslation, finialize).
THEOREM OutputInInputOrder == Spec => []InputOrder
<1>1. IInv => InputOrder
  BY LinesAssumption DEF IInv, TypeOK, InputOrder
<1>2. QED
  BY <1>1, SpecIInv, PTL

\* No line is lost, written twice, or parked while its turn has come.
THEOREM EveryLineOnce == Spec => [](HandedOverOnce /\ NothingHeldBack)
<1>1. IInv => HandedOverOnce /\ NothingHeldBack
  BY DEF IInv
<1>2. QED
  BY <1>1, SpecIInv, PTL

\* A normal exit has written one line per input line: finialize never finds
\* anything to write.
THEOREM ExitIsComplete == Spec => []CompleteOnExit
<1>1. IInv => CompleteOnExit
  <2>1. SUFFICES ASSUME IInv, main = "exited" PROVE Len(output) = Lines
    BY DEF CompleteOnExit
  <2>2. LastSavedIndex = Lines
    BY <2>1, NothingLeftToFinalize DEF IInv, PoolIsDone
  <2>3. QED
    BY <2>1, <2>2 DEF IInv
<1>2. QED
  BY <1>1, SpecIInv, PTL

\* The console implements the abstract ordered output.
THEOREM ImplementsOrderedOutput == Spec => RefinesOrderedOutput
<1>1. Init => Promise!Init
  BY DEF Init, Promise!Init
<1>2. IInv /\ IInv' /\ [Next]_vars => [Promise!Write]_output
  <2> SUFFICES ASSUME IInv, IInv', [Next]_vars, output' # output PROVE Promise!Write
    OBVIOUS
  <2>1. PICK line : writeOutputLines(line)
    BY DEF Next, JobStep, vars, Terminated, StartJob, EndOfInput, PoolDone, finialize, RunJob,
       Translate, TranslateThrows, WriteThrows, WriteOrPark, Drain, EndJob
  <2>2. /\ Len(output) < Lines
        /\ Len(output') = Len(output) + 1
        /\ output'[Len(output) + 1] = Len(output) + 1
        /\ output' = Append(output, line)
    BY <2>1, LinesAssumption DEF IInv, TypeOK, writeOutputLines
  <2>3. line = Len(output) + 1
    BY <2>2 DEF IInv, TypeOK
  <2>4. QED
    BY <2>2, <2>3 DEF Promise!Write
<1>3. QED
  BY <1>1, <1>2, SpecIInv, PTL DEF Spec, RefinesOrderedOutput, Promise!Spec
=============================================================================
