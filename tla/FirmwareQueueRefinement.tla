----------------------- MODULE FirmwareQueueRefinement -----------------------
(***************************************************************************)
(* FirmwareQueue implements JobLifecycle: every step of a lane, a worker,  *)
(* a call, a save or a restart is a step of the jobs' life or none at all. *)
(* The four lemmas Abstract... say which facts about a concrete step make  *)
(* it a step of JobLifecycle; the rest finds these facts for each action.  *)
(***************************************************************************)
EXTENDS FirmwareQueueSafety

AbstractVars == <<status, [j \in Job |-> desc[j].dep], ends>>

LEMMA AbstractCreate ==
    ASSUME TypeInv, TypeInv', NEW S \in SUBSET Job, S # {},
           \A j \in S : /\ status[j] = "none" /\ status'[j] = "queued"
                        /\ desc'[j].dep \in S \cup {NoJob},
           \A j \in Job \ S : status'[j] = status[j] /\ desc'[j] = desc[j],
           ends' = ends
    PROVE  Lifecycle!Next
<1> DEFINE d == [j \in S |-> desc'[j].dep]
<1>1. status' = [j \in Job |-> IF j \in S THEN "queued" ELSE status[j]]
  BY DEF TypeInv, TypeOK, JobTypes
<1>2. d \in [S -> S \cup {NoJob}]
  OBVIOUS
<1>3. [j \in Job |-> desc'[j].dep]
         = [j \in Job |-> IF j \in S THEN d[j] ELSE [i \in Job |-> desc[i].dep][j]]
  OBVIOUS
<1>4. Lifecycle!Create(S)
  BY <1>1, <1>2, <1>3 DEF Lifecycle!Create
<1>5. QED
  BY <1>4 DEF Lifecycle!Next

LEMMA AbstractStart ==
    ASSUME TypeInv, NEW j \in Job, status[j] = "queued",
           desc[j].dep # NoJob => status[desc[j].dep] \in Past,
           status' = [status EXCEPT ![j] = "running"],
           UNCHANGED <<desc, ends>>
    PROVE  Lifecycle!Next
<1>1. Lifecycle!Start(j)
  BY DEF Lifecycle!Start, Lifecycle!Past, Past
<1>2. QED
  BY <1>1 DEF Lifecycle!Next

LEMMA AbstractEnd ==
    ASSUME TypeInv, TypeInv', EndsInv, NEW S \in SUBSET Job, NEW T \in SUBSET Job,
           \A j \in S : \/ status[j] = "queued" /\ status'[j] = "cancelled"
                        \/ status[j] = "running" /\ status'[j] \in Terminal /\ j \in T,
           \A j \in Job \ S : status'[j] = status[j],
           \A j \in T : status'[j] \in Terminal /\ ends[j] = 0 /\ ends'[j] = 1,
           \A j \in Job \ T : ends'[j] = ends[j],
           UNCHANGED desc
    PROVE  Lifecycle!Next
<1> DEFINE r == [j \in S |-> status'[j]]
<1>1. r \in [S -> Lifecycle!Over]
  BY DEF Terminal, Lifecycle!Over
<1>2. status' = [j \in Job |-> IF j \in S THEN r[j] ELSE status[j]]
  BY DEF TypeInv, TypeOK, JobTypes
<1>3. ends' = [j \in Job |-> IF j \in T THEN 1 ELSE ends[j]]
  BY DEF TypeInv, TypeOK, HistTypes
<1>4. Lifecycle!End(S, T, r)
  BY <1>2, <1>3 DEF Lifecycle!End, Lifecycle!Alive, Lifecycle!Over, Terminal
<1>5. QED
  BY <1>1, <1>4 DEF Lifecycle!Next

LEMMA AbstractCrash ==
    ASSUME TypeInv', \A j \in Job : status'[j] # "running",
           ends' = [j \in Job |-> 0], UNCHANGED desc
    PROVE  Lifecycle!Next
<1>1. status' \in [Job -> {"none", "queued"} \cup Lifecycle!Over]
  <2>1. status' \in [Job -> Status]
    BY DEF TypeInv, TypeOK, JobTypes
  <2>2. \A j \in Job : status'[j] \in {"none", "queued"} \cup Lifecycle!Over
    BY <2>1 DEF Status, Terminal, Lifecycle!Over
  <2>3. QED
    BY <2>1, <2>2
<1>2. Lifecycle!Crash
  BY <1>1 DEF Lifecycle!Crash
<1>3. QED
  BY <1>2 DEF Lifecycle!Next

-----------------------------------------------------------------------------
(* The steps that create jobs *)

LEMMA SubmitAbstract ==
    ASSUME TypeInv, TypeInv', QueueInv, NEW c \in Client, NEW N \in SUBSET Job, N # {},
           \A j \in N : j >= next,
           \A j \in N : status'[j] = "queued" /\ desc'[j].dep \in N \cup {NoJob},
           \A j \in Job \ N : status'[j] = status[j] /\ desc'[j] = desc[j],
           ends' = ends
    PROVE  Lifecycle!Next
BY AbstractCreate DEF QueueInv, FreshInv

LEMMA CreationAbstract ==
    ASSUME TypeInv, TypeInv', QueueInv, NEW c \in Client,
           \/ \E op, ty, g : SubmitOne(c, op, ty, g)
           \/ \E g : Install(c, g)
           \/ ResetBuildEnv(c)
           \/ RenameLock(c)
    PROVE  Lifecycle!Next \/ UNCHANGED AbstractVars
<1>0. /\ next \in 1..(MaxJob + 1) /\ status \in [Job -> Status] /\ desc \in [Job -> JobDesc]
      /\ MaxJob \in Nat
  BY BoundsAssumption DEF TypeInv, TypeOK, JobTypes
<1>a. ASSUME NEW d, d.dep = NoJob, next \in Job, desc' = [desc EXCEPT ![next] = d],
             status' = [status EXCEPT ![next] = "queued"], ends' = ends
      PROVE  Lifecycle!Next
  <2> DEFINE N == {next}
  <2>1. N \in SUBSET Job /\ N # {} /\ \A j \in N : j >= next
    BY <1>0, <1>a
  <2>2. /\ \A j \in N : status'[j] = "queued" /\ desc'[j].dep \in N \cup {NoJob}
        /\ \A j \in Job \ N : status'[j] = status[j] /\ desc'[j] = desc[j]
    BY <1>0, <1>a, <2>1
  <2> HIDE DEF N
  <2>3. QED
    BY <1>a, <2>1, <2>2, SubmitAbstract
<1>1. CASE \E op, ty, g : SubmitOne(c, op, ty, g)
  <2>1. PICK op, ty, g : SubmitOne(c, op, ty, g)
    BY <1>1
  <2>2. /\ next \in Job
        /\ desc' = [desc EXCEPT ![next] = NewJob(ty, g, NoConfig, NoJob)]
        /\ status' = [status EXCEPT ![next] = "queued"] /\ ends' = ends
    BY <1>0, <2>1 DEF SubmitOne, CanCreate, Job, histVars
  <2>3. NewJob(ty, g, NoConfig, NoJob).dep = NoJob
    BY DEF NewJob
  <2>4. QED
    BY <1>a, <2>2, <2>3
<1>2. CASE ResetBuildEnv(c)
  <2>1. /\ next \in Job
        /\ desc' = [desc EXCEPT ![next] = NewJob("reset", NoConfig, NoConfig, NoJob)]
        /\ status' = [status EXCEPT ![next] = "queued"] /\ ends' = ends
    BY <1>0, <1>2 DEF ResetBuildEnv, CanCreate, Job, histVars
  <2>2. NewJob("reset", NoConfig, NoConfig, NoJob).dep = NoJob
    BY DEF NewJob
  <2>3. QED
    BY <1>a, <2>1, <2>2
<1>3. ASSUME NEW d1, NEW d2, d1.dep = NoJob, d2.dep = next, next \in Job, next + 1 \in Job,
             desc' = [desc EXCEPT ![next] = d1, ![next + 1] = d2],
             status' = [status EXCEPT ![next] = "queued", ![next + 1] = "queued"],
             ends' = ends
      PROVE  Lifecycle!Next
  <2> DEFINE N == {next, next + 1}
  <2>1. next # next + 1 /\ N \in SUBSET Job /\ N # {} /\ \A j \in N : j >= next
    BY <1>0, <1>3
  <2>2. /\ \A j \in N : status'[j] = "queued" /\ desc'[j].dep \in N \cup {NoJob}
        /\ \A j \in Job \ N : status'[j] = status[j] /\ desc'[j] = desc[j]
    BY <1>0, <1>3, <2>1
  <2> HIDE DEF N
  <2>3. QED
    BY <1>3, <2>1, <2>2, SubmitAbstract
<1>4. CASE \E g : Install(c, g)
  <2>1. PICK g : Install(c, g)
    BY <1>4
  <2>2. /\ next \in Job /\ next + 1 \in Job
        /\ desc' = [desc EXCEPT ![next] = NewJob("compile", g, NoConfig, NoJob),
                                ![next + 1] = NewJob("upload", g, NoConfig, next)]
        /\ status' = [status EXCEPT ![next] = "queued", ![next + 1] = "queued"]
        /\ ends' = ends
    BY <1>0, <2>1 DEF Install, CanCreate, Job, histVars
  <2>3. /\ NewJob("compile", g, NoConfig, NoJob).dep = NoJob
        /\ NewJob("upload", g, NoConfig, next).dep = next
    BY DEF NewJob
  <2>4. QED
    BY <1>3, <2>2, <2>3
<1>5. CASE RenameLock(c)
  <2> DEFINE g == cmd[c].cfg
             n == cmd[c].new
  <2>1. CASE UNCHANGED jobVars
    BY <1>5, <2>1 DEF RenameLock, AbstractVars, jobVars, histVars
  <2>2. CASE ~UNCHANGED jobVars
    <3>1. /\ next \in Job /\ next + 1 \in Job
          /\ desc' = [desc EXCEPT ![next] = NewJob("compile", n, NoConfig, NoJob),
                                  ![next + 1] = NewJob("rename", g, n, next)]
          /\ status' = [status EXCEPT ![next] = "queued", ![next + 1] = "queued"]
          /\ ends' = ends
      BY <1>0, <1>5, <2>2 DEF RenameLock, Job, jobVars, histVars
    <3>2. /\ NewJob("compile", n, NoConfig, NoJob).dep = NoJob
          /\ NewJob("rename", g, n, next).dep = next
      BY DEF NewJob
    <3>3. QED
      BY <1>3, <3>1, <3>2
  <2>3. QED
    BY <2>1, <2>2
<1>6. QED
  BY <1>1, <1>2, <1>4, <1>5

-----------------------------------------------------------------------------
(* A worker starts a job *)

LEMMA ConsiderAbstract ==
    ASSUME TypeInv, QueueInv, NEW w \in Worker, Take(w) \/ Recheck(w)
    PROVE  Lifecycle!Next \/ UNCHANGED AbstractVars
<1>1. desc' = desc /\ ends' = ends
  BY DEF Take, Recheck, histVars
<1>2. \E j \in Job : Placed(j) /\ status[j] \in Idling /\ Consider(w, j)
  <2>1. CASE Take(w)
    <3>1. /\ LaneOf[w] \in Lane /\ queue \in [Lane -> Seq(Job)] /\ queue[LaneOf[w]] # <<>>
          /\ Distinct(queue) /\ Consider(w, Head(queue[LaneOf[w]]))
      BY <2>1, TaskAssumption DEF Take, TypeInv, TypeOK, WorkTypes, QueueInv, PlaceInv
    <3>2. Head(queue[LaneOf[w]]) \in In(queue)
      BY <3>1, InTail
    <3>3. QED
      BY <3>1, <3>2, InTyped DEF QueueInv, StatusInv, Placed
  <2>2. CASE Recheck(w)
    BY <2>2 DEF Recheck, TypeInv, TaskInv, QueueInv, StatusInv, Placed
  <2>3. QED
    BY <2>1, <2>2
<1>3. PICK j \in Job : Placed(j) /\ status[j] \in Idling /\ Consider(w, j)
  BY <1>2
<1>4. CASE UNCHANGED status
  BY <1>1, <1>4 DEF AbstractVars
<1>5. CASE status[j] = "queued" /\ status' = [status EXCEPT ![j] = "running"]
  <2>1. desc[j].dep # NoJob => status[desc[j].dep] \in Past
    BY <1>3 DEF QueueInv, ChainInv
  <2>2. QED
    BY <1>1, <1>5, <2>1, AbstractStart
<1>6. QED
  BY <1>3, <1>4, <1>5 DEF Consider, Dropped, Idling

-----------------------------------------------------------------------------
(* The steps that settle jobs *)

LEMMA CancelQueuedAbstract ==
    ASSUME TypeInv, TypeInv', EndsInv, NEW c \in Client, CancelQueued(c)
    PROVE  Lifecycle!Next
<1>1. PICK j \in Job : /\ status[j] = "queued"
                       /\ status' = [status EXCEPT ![j] = "cancelled"] /\ ends' = ends
  BY CancelQueuedFacts
<1>2. desc' = desc
  BY DEF CancelQueued
<1> DEFINE S == {j}
<1>3. /\ S \in SUBSET Job
      /\ \A i \in S : status[i] = "queued" /\ status'[i] = "cancelled"
      /\ \A i \in Job \ S : status'[i] = status[i]
  BY <1>1 DEF TypeInv, TypeOK, JobTypes
<1> DEFINE T == {}
<1>4. /\ T \in SUBSET Job
      /\ \A i \in T : status'[i] \in Terminal /\ ends[i] = 0 /\ ends'[i] = 1
      /\ \A i \in Job \ T : ends'[i] = ends[i]
  BY <1>1
<1> HIDE DEF S, T
<1>5. \A i \in S : \/ status[i] = "queued" /\ status'[i] = "cancelled"
                   \/ status[i] = "running" /\ status'[i] \in Terminal /\ i \in T
  BY <1>3
<1>6. QED
  BY <1>2, <1>3, <1>4, <1>5, AbstractEnd

LEMMA CancelSavedAbstract ==
    ASSUME TypeInv, TypeInv', EndsInv, NEW c \in Client, CancelSaved(c)
    PROVE  Lifecycle!Next
<1>1. PICK S \in SUBSET Job :
         /\ \A i \in S : status[i] = "queued" /\ status'[i] = "cancelled"
         /\ \A i \in Job \ S : status'[i] = status[i]
         /\ ends' = [i \in Job |-> IF i = cmd[c].job \/ i \in S THEN ends[i] + 1 ELSE ends[i]]
  BY CancelSavedFacts
<1>2. cmd[c].pc = "save1" /\ cmd[c].job \in Job /\ desc' = desc
  BY DEF CancelSaved, TypeInv, TaskInv, CmdInv
<1>3. status[cmd[c].job] = "cancelled" /\ ends[cmd[c].job] = 0
  BY <1>2 DEF EndsInv
<1> DEFINE T == S \cup {cmd[c].job}
<1>4. T \in SUBSET Job /\ \A i \in T : ends[i] = 0 /\ status'[i] = "cancelled"
  BY <1>1, <1>2, <1>3 DEF EndsInv, Terminal
<1>5. \A i \in Job : ends'[i] = IF i \in T THEN ends[i] + 1 ELSE ends[i]
  BY <1>1, <1>2
<1> HIDE DEF T
<1>6. /\ \A i \in T : status'[i] \in Terminal /\ ends[i] = 0 /\ ends'[i] = 1
      /\ \A i \in Job \ T : ends'[i] = ends[i]
  BY <1>4, <1>5 DEF Terminal
<1>7. /\ \A i \in S : \/ status[i] = "queued" /\ status'[i] = "cancelled"
                      \/ status[i] = "running" /\ status'[i] \in Terminal /\ i \in T
      /\ \A i \in Job \ S : status'[i] = status[i]
  BY <1>1
<1>8. QED
  BY <1>2, <1>4, <1>6, <1>7, AbstractEnd

LEMMA FinishRunAbstract ==
    ASSUME TypeInv, TypeInv', QueueInv, EndsInv, NEW w \in Worker, NEW r \in Terminal,
           NEW offline \in BOOLEAN, wpc[w] \in SlotPc, FinishRun(w, r, offline)
    PROVE  Lifecycle!Next
<1> DEFINE j == wjob[w]
           go == r = "completed" /\ ~offline
           S == IF go THEN {j} ELSE {j} \cup Held(j)
<1>1. j \in Job /\ status[j] = "running"
  BY DEF TypeInv, TaskInv, QueueInv, StatusInv, SlotPc
<1>2. Held(j) \subseteq Job /\ \A d \in Held(j) : status[d] = "queued"
  BY DEF Held, Dependents, TypeInv, TypeOK, JobTypes
<1>3. S \in SUBSET Job /\ j \in S /\ \A i \in S : i # j => status[i] = "queued"
  BY <1>1, <1>2
<1>4. /\ status' = [i \in Job |-> IF i = j THEN r
                                  ELSE IF i \in S THEN "cancelled" ELSE status[i]]
      /\ ends' = [i \in Job |-> IF i \in S THEN ends[i] + 1 ELSE ends[i]]
      /\ desc' = desc
  BY DEF FinishRun
<1> HIDE DEF j, S, go
<1>5. \A i \in S : ends[i] = 0
  BY <1>1, <1>3 DEF EndsInv, Terminal
<1>6. \A i \in S : /\ \/ status[i] = "queued" /\ status'[i] = "cancelled"
                      \/ status[i] = "running" /\ status'[i] \in Terminal
                   /\ status'[i] \in Terminal /\ ends'[i] = 1
  BY <1>1, <1>3, <1>4, <1>5 DEF Terminal
<1>7. \A i \in Job \ S : status'[i] = status[i] /\ ends'[i] = ends[i]
  BY <1>3, <1>4
<1>8. QED
  BY <1>3, <1>4, <1>5, <1>6, <1>7, AbstractEnd

-----------------------------------------------------------------------------
(* Every step *)

LEMMA NextAbstract ==
    ASSUME TypeInv, TypeInv', QueueInv, EndsInv, [Next]_vars
    PROVE  [Lifecycle!Next]_AbstractVars
<1>1. CASE \E c \in Client : Request(c)
  <2>1. PICK c \in Client : Request(c)
    BY <1>1
  <2>2. CASE \/ \E op, ty, g : SubmitOne(c, op, ty, g)
             \/ \E g : Install(c, g)
             \/ ResetBuildEnv(c)
    BY <2>2, CreationAbstract
  <2>3. CASE \/ \E g, n \in Config : Rename(c, g, n)
             \/ \E j \in Job : Cancel(c, j)
             \/ \E st \in ClearStatuses : Clear(c, st)
    BY <2>3 DEF Rename, Cancel, Clear, AbstractVars, jobVars, histVars
  <2>4. QED
    BY <2>1, <2>2, <2>3 DEF Request, Compile, Upload, Clean, AnalyzeMemory
<1>2. CASE \E c \in Client : ClientStep(c)
  <2>1. PICK c \in Client : ClientStep(c)
    BY <1>2
  <2>2. CASE RenameLock(c)
    BY <2>2, CreationAbstract
  <2>3. CASE CancelQueued(c)
    BY <2>3, CancelQueuedAbstract
  <2>4. CASE CancelSaved(c)
    BY <2>4, CancelSavedAbstract
  <2>5. CASE StageSaved(c) \/ StageWritten(c) \/ StageFails(c) \/ CommitSaved(c)
    BY <2>5 DEF StageSaved, StageWritten, StageFails, CommitSaved, AbstractVars, jobVars,
       histVars
  <2>6. CASE CancelRunning(c) \/ CancelMissed(c) \/ Killed(c) \/ CancelSavedAgain(c)
    BY <2>6 DEF CancelRunning, CancelMissed, Killed, CancelSavedAgain, AbstractVars, jobVars,
       histVars
  <2>7. CASE SweepDone(c) \/ ResetSwept(c)
    BY <2>7 DEF SweepDone, ResetSwept, AbstractVars, jobVars, histVars
  <2>8. QED
    BY <2>1, <2>2, <2>3, <2>4, <2>5, <2>6, <2>7 DEF ClientStep
<1>3. CASE \E w \in Worker : WorkerStep(w)
  <2>1. PICK w \in Worker : WorkerStep(w)
    BY <1>3
  <2>2. CASE Take(w) \/ Recheck(w)
    BY <2>2, ConsiderAbstract
  <2>3. CASE Begun(w) \/ Spawn(w) \/ ExitToEpilogue(w) \/ Ended(w)
    BY <2>3 DEF Begun, Spawn, ExitToEpilogue, Ended, AbstractVars, jobVars, histVars
  <2>4. CASE \/ PrepFails(w) \/ EpilogueFails(w) \/ EpilogueDone(w)
             \/ \E ok, offline \in BOOLEAN : Exit(w, ok, offline)
    BY <2>4, FinishSteps, FinishRunAbstract
  <2>5. QED
    BY <2>1, <2>2, <2>3, <2>4 DEF WorkerStep
<1>4. CASE Restart
  <2>1. /\ status' = [j \in Job |-> RestoredStatus(j)]
        /\ ends' = [j \in Job |-> 0] /\ desc' = desc
    BY <1>4 DEF Restart
  <2>2. \A j \in Job : status'[j] # "running"
    BY <2>1 DEF RestoredStatus, Requeued
  <2>3. QED
    BY <2>1, <2>2, AbstractCrash
<1>5. CASE SaveStep \/ RevertStep \/ UNCHANGED vars
  BY <1>5 DEF SaveStep, SaveBegin, SaveJob, SaveWrite, RevertStep, RevertStart, RevertDone, vars,
     AbstractVars, jobVars, histVars
<1>6. QED
  BY <1>1, <1>2, <1>3, <1>4, <1>5 DEF Next

\* The job queue implements the life of jobs it promises, for any number of jobs, calls,
\* workers and restarts: a job runs only once its prerequisite completed, and ends and
\* says so once per process.  Snapshots have to be taken in one piece if it may restart.
THEOREM QueueImplementsLifecycle == WholeSnapshots => (Spec => ImplementsLifecycle)
<1>1. SUFFICES ASSUME WholeSnapshots PROVE Spec => ImplementsLifecycle
  OBVIOUS
<1>2. Spec => [](TypeInv /\ QueueInv)
  BY <1>1, InvHolds
<1>3. Init => EndsInv
  BY InitEnds
<1>4. TypeInv /\ QueueInv /\ (TypeInv /\ QueueInv)' /\ EndsInv /\ [Next]_vars => EndsInv'
  BY NextEnds
<1>5. Init => Lifecycle!Init
  <2>1. SUFFICES ASSUME Init PROVE Lifecycle!Init
    OBVIOUS
  <2>2. \A j \in Job : desc[j].dep = NoJob
    BY <2>1 DEF Init, NoDesc
  <2>3. QED
    BY <2>1, <2>2 DEF Init, Lifecycle!Init
<1>6. TypeInv /\ QueueInv /\ (TypeInv /\ QueueInv)' /\ EndsInv /\ [Next]_vars
      => [Lifecycle!Next]_Lifecycle!vars
  BY NextAbstract DEF AbstractVars, Lifecycle!vars
<1>7. QED
  BY <1>2, <1>3, <1>4, <1>5, <1>6, PTL DEF Spec, ImplementsLifecycle, Lifecycle!Spec
=============================================================================
