------------------------- MODULE TranslationWriter -------------------------
(***************************************************************************)
(* The console's translation of a file: appTargomanSMTConsole::slotExecute *)
(* starts one clsTranslationJob per input line in the global thread pool,  *)
(* every job hands its result to the TranslationWriter singleton, which    *)
(* writes results in the order of the input and parks the ones that come   *)
(* early; the main thread waits for the pool and then calls finialize().   *)
(*                                                                         *)
(* A translation is represented by the number of the line it translates.   *)
(* writeTranslation runs under OutputListLock, one line written per step,  *)
(* so that an exception that ends the process can fall between two lines.  *)
(***************************************************************************)
EXTENDS Naturals, Sequences, FiniteSets

CONSTANTS Lines,        \* number of lines of InputFile
          MaxThreads    \* gConfigs::MaxThreads, threads of the pool

ASSUME LinesAssumption   == Lines \in Nat
ASSUME ThreadsAssumption == MaxThreads \in Nat \ {0}

VARIABLES
    main,                 \* what slotExecute is doing
    Index,                \* lines read and started so far
    job,                  \* job[i]: what the job of line i is doing
    OutputListLock,       \* the job that holds the mutex, 0 when it is free
    PendingTranslations,  \* keys of the QMultiMap; each has one value, its line
    LastSavedIndex,
    output                \* the lines written so far

vars == <<main, Index, job, OutputListLock, PendingTranslations, LastSavedIndex, output>>

Jobs     == 1..Lines
Active   == {"translating", "translated", "writing"}
JobState == {"none", "queued", "done"} \cup Active
Stopped  == {"exited", "aborted"}

\* What is parked or written is a line of the input; the mutex is free or a job's.
TypeOK ==
    /\ main \in {"reading", "waiting", "finalizing"} \cup Stopped
    /\ Index \in 0..Lines
    /\ job \in [Jobs -> JobState]
    /\ OutputListLock \in 0..Lines
    /\ PendingTranslations \subseteq Jobs
    /\ LastSavedIndex \in Nat
    /\ output \in Seq(Jobs)

Init ==
    /\ main = "reading"
    /\ Index = 0
    /\ job = [i \in Jobs |-> "none"]
    /\ OutputListLock = 0
    /\ PendingTranslations = {}
    /\ LastSavedIndex = 0
    /\ output = <<>>

firstKey == CHOOSE k \in PendingTranslations : \A j \in PendingTranslations : k <= j

\* Mutant: the test compares with the last line written instead of the next.
NextIsPending_OffByOne == LastSavedIndex \in PendingTranslations /\ firstKey = LastSavedIndex

\* The head of PendingTranslations is the next line of the output.
NextIsPending == LastSavedIndex + 1 \in PendingTranslations /\ firstKey = LastSavedIndex + 1

\* Mutant: the written index is not removed from PendingTranslations.
writeOutputLines_KeepsPending(line) ==
    /\ output' = Append(output, line)
    /\ LastSavedIndex' = LastSavedIndex + 1
    /\ UNCHANGED PendingTranslations

\* writeOutputLines: append, count, and forget the counted index.
writeOutputLines(line) ==
    /\ output' = Append(output, line)
    /\ LastSavedIndex' = LastSavedIndex + 1
    /\ PendingTranslations' = PendingTranslations \ {LastSavedIndex + 1}

-----------------------------------------------------------------------------
\* Mutant: one line too many is started.
StartJob_PastEnd ==
    /\ main = "reading"
    /\ Index <= Lines
    /\ Index' = Index + 1
    /\ job' = [job EXCEPT ![Index + 1] = "queued"]
    /\ UNCHANGED <<main, OutputListLock, PendingTranslations, LastSavedIndex, output>>

\* The main thread reads a line and starts its job in the pool.
StartJob ==
    /\ main = "reading"
    /\ Index < Lines
    /\ Index' = Index + 1
    /\ job' = [job EXCEPT ![Index + 1] = "queued"]
    /\ UNCHANGED <<main, OutputListLock, PendingTranslations, LastSavedIndex, output>>

\* The end of the file: waitForDone.
EndOfInput ==
    /\ main = "reading"
    /\ Index = Lines
    /\ main' = "waiting"
    /\ UNCHANGED <<Index, job, OutputListLock, PendingTranslations, LastSavedIndex, output>>

\* A free thread of the pool takes the oldest queued job.
RunJob(i) ==
    /\ main \notin Stopped
    /\ job[i] = "queued"
    /\ \A j \in Jobs : job[j] = "queued" => i <= j
    /\ Cardinality({j \in Jobs : job[j] \in Active}) < MaxThreads
    /\ job' = [job EXCEPT ![i] = "translating"]
    /\ UNCHANGED <<main, Index, OutputListLock, PendingTranslations, LastSavedIndex, output>>

Translate(i) ==
    /\ main \notin Stopped
    /\ job[i] = "translating"
    /\ job' = [job EXCEPT ![i] = "translated"]
    /\ UNCHANGED <<main, Index, OutputListLock, PendingTranslations, LastSavedIndex, output>>

\* An exception of the translation leaves QRunnable::run: the process ends.
TranslateThrows(i) ==
    /\ main \notin Stopped
    /\ job[i] = "translating"
    /\ main' = "aborted"
    /\ UNCHANGED <<Index, job, OutputListLock, PendingTranslations, LastSavedIndex, output>>

\* Mutant: the index is ignored when nothing is pending.
WriteOrPark_IgnoresIndex(i) ==
    /\ main \notin Stopped
    /\ job[i] = "translated"
    /\ OutputListLock = 0
    /\ OutputListLock' = i
    /\ job' = [job EXCEPT ![i] = "writing"]
    /\ \/ /\ i = LastSavedIndex + 1 \/ PendingTranslations = {}
          /\ writeOutputLines(i)
       \/ /\ i # LastSavedIndex + 1 /\ PendingTranslations # {}
          /\ PendingTranslations' = PendingTranslations \cup {i}
          /\ UNCHANGED <<LastSavedIndex, output>>
    /\ UNCHANGED <<main, Index>>

\* writeTranslation, first half: take the lock, then write the line or park it.
WriteOrPark(i) ==
    /\ main \notin Stopped
    /\ job[i] = "translated"
    /\ OutputListLock = 0
    /\ OutputListLock' = i
    /\ job' = [job EXCEPT ![i] = "writing"]
    /\ \/ /\ i = LastSavedIndex + 1
          /\ writeOutputLines(i)
       \/ /\ i # LastSavedIndex + 1
          /\ PendingTranslations' = PendingTranslations \cup {i}
          /\ UNCHANGED <<LastSavedIndex, output>>
    /\ UNCHANGED <<main, Index>>

\* writeTranslation, its loop: write the parked lines whose turn has come.
Drain(i) ==
    /\ main \notin Stopped
    /\ OutputListLock = i
    /\ NextIsPending
    /\ writeOutputLines(firstKey)
    /\ UNCHANGED <<main, Index, job, OutputListLock>>

\* Mutant: the mutex is not released.
EndJob_KeepsLock(i) ==
    /\ main \notin Stopped
    /\ OutputListLock = i
    /\ ~NextIsPending
    /\ job' = [job EXCEPT ![i] = "done"]
    /\ UNCHANGED <<main, Index, OutputListLock, PendingTranslations, LastSavedIndex, output>>

\* The QMutexLocker goes out of scope and the job ends.
EndJob(i) ==
    /\ main \notin Stopped
    /\ OutputListLock = i
    /\ ~NextIsPending
    /\ OutputListLock' = 0
    /\ job' = [job EXCEPT ![i] = "done"]
    /\ UNCHANGED <<main, Index, PendingTranslations, LastSavedIndex, output>>

\* The output file cannot be opened for appending: the exception of
\* writeOutputLines is raised before anything is written or counted, and ends
\* the process, from the first write of a job or from its loop.
WriteThrows(i) ==
    /\ main \notin Stopped
    /\ \/ job[i] = "translated" /\ OutputListLock = 0 /\ i = LastSavedIndex + 1
       \/ OutputListLock = i /\ NextIsPending
    /\ main' = "aborted"
    /\ UNCHANGED <<Index, job, OutputListLock, PendingTranslations, LastSavedIndex, output>>

\* Mutant: finialize is called without waitForDone.
PoolDone_NoWait ==
    /\ main = "waiting"
    /\ main' = "finalizing"
    /\ UNCHANGED <<Index, job, OutputListLock, PendingTranslations, LastSavedIndex, output>>

\* waitForDone returns when no job is queued or running.
PoolDone ==
    /\ main = "waiting"
    /\ \A i \in Jobs : job[i] = "done"
    /\ main' = "finalizing"
    /\ UNCHANGED <<Index, job, OutputListLock, PendingTranslations, LastSavedIndex, output>>

\* finialize: without the lock, write what is still pending, whatever its
\* index; then exit. One line per step.
finialize ==
    /\ main = "finalizing"
    /\ IF PendingTranslations = {}
       THEN /\ main' = "exited"
            /\ UNCHANGED <<PendingTranslations, LastSavedIndex, output>>
       ELSE /\ writeOutputLines(firstKey)
            /\ UNCHANGED main
    /\ UNCHANGED <<Index, job, OutputListLock>>

-----------------------------------------------------------------------------
JobStep(i) == \/ RunJob(i) \/ Translate(i) \/ TranslateThrows(i)
              \/ WriteOrPark(i) \/ Drain(i) \/ EndJob(i) \/ WriteThrows(i)

Terminated == main \in Stopped /\ UNCHANGED vars

Next == \/ StartJob \/ EndOfInput \/ PoolDone \/ finialize
        \/ \E i \in Jobs : JobStep(i)
        \/ Terminated

\* The threads of the pool and the main thread are scheduled by the system:
\* none that can go on is held back for ever.
Fairness == WF_vars(Next)

Spec     == Init /\ [][Next]_vars
FairSpec == Spec /\ Fairness

-----------------------------------------------------------------------------
\* Line k of the output is the translation of line k, at every moment: also
\* when the process is ended by an exception between two lines
\* (writeTranslation, finialize).
InputOrder == output = [k \in 1..Len(output) |-> k]

\* No result is lost or written twice: what a job has handed over is either
\* written or parked, and never both.
HandedOverOnce ==
    \A i \in Jobs :
        /\ job[i] \in {"writing", "done"} <=> (i \in PendingTranslations \/ i <= LastSavedIndex)
        /\ ~(i \in PendingTranslations /\ i <= LastSavedIndex)

\* A parked line waits only for lines that are not translated yet: when no
\* job is inside writeTranslation, the next line of the output is not parked.
NothingHeldBack == OutputListLock = 0 => LastSavedIndex + 1 \notin PendingTranslations

\* A console that exits normally has written one line per line of the input.
CompleteOnExit == main = "exited" => Len(output) = Lines

\* slotExecute ends: the pool drains, and finialize's loop terminates.
Terminates == <>(main \in Stopped)

\* The output is the abstract one: each step writes the next line or nothing.
Promise == INSTANCE OrderedOutput
RefinesOrderedOutput == Promise!Spec
=============================================================================
