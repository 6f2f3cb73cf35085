------------------------- MODULE FirmwareQueueProofs -------------------------
(***************************************************************************)
(* Machine-checked facts about FirmwareQueue, for every number of jobs,    *)
(* clients, workers and restarts.                                          *)
(***************************************************************************)
EXTENDS FirmwareQueue, TLAPS, WellFoundedInduction, SequenceTheorems

-----------------------------------------------------------------------------
(* Operators *)

\* MinOf picks a least element: how the head of a chain and the next job of a sweep
\* are found.
LEMMA MinInSet ==
    ASSUME NEW S, S \subseteq Nat, S # {}
    PROVE  MinOf(S) \in S /\ \A k \in S : MinOf(S) <= k
<1>1. IsWellFoundedOn(OpToRel(<, Nat), Nat)
  BY NatLessThanWellFounded
<1>2. PICK m \in S : \A y \in S : ~(<<y, m>> \in OpToRel(<, Nat))
  BY <1>1, WFMin
<1>3. \A y \in S : m <= y
  <2>1. TAKE y \in S
  <2>2. m \in Nat /\ y \in Nat
    OBVIOUS
  <2>3. ~(y < m)
    BY <1>2, <2>2 DEF OpToRel
  <2>4. QED
    BY <2>2, <2>3
<1>4. QED
  BY <1>3 DEF MinOf

\* prune_history only drops jobs, and never one that is queued or running.
LEMMA PruneKeeps ==
    ASSUME NEW K, NEW st
    PROVE  /\ Prune(K, st) \subseteq K
           /\ \A j \in K : st[j] \notin Terminal => j \in Prune(K, st)
BY DEF Prune, Newest

-----------------------------------------------------------------------------
(* Type correctness *)

\* What a call in flight holds: the job it cancels, the jobs it stages or will place,
\* the name it renames to.
CmdInv(r) ==
    /\ r.pc \in {"save1", "save2", "kill"} => r.job \in Job
    /\ r.then \in {"place", "stage_save"} \/ r.pc \in {"stage_save", "stage_write"}
       => r.own # {}
    /\ r.then = "stage_save" \/ r.pc \in {"fs_lock", "stage_save", "stage_write"}
       => r.new \in Config

\* What a call keeps from one cancelled job to the next.
SameCall(r, q) == r.then = q.then /\ r.own = q.own /\ r.new = q.new

\* What the tasks hold when they are past their first step: a busy worker has a job, a
\* call that cancels has one, and a call that stages or resets has created its own.
TaskInv ==
    /\ \A w \in Worker : wpc[w] # "idle" => wjob[w] \in Job
    /\ \A c \in Client : CmdInv(cmd[c])

TypeInv == TypeOK /\ TaskInv

USE DEF Job, NoJob, Lane, JobType, Terminal, Status, DiskRec, JobDesc, Proc

LEMMA EmptyRecords == Absent \in DiskRec /\ NoDesc \in JobDesc /\ IdleCmd \in Cmd
BY DEF Absent, NoDesc, IdleCmd, Cmd, ClientPc

\* create_job and the sweep build well-typed records.
LEMMA NewJobTyped ==
    ASSUME NEW ty \in JobType, NEW g \in Config \cup {NoConfig},
           NEW n \in Config \cup {NoConfig}, NEW d \in Job \cup {NoJob}
    PROVE  NewJob(ty, g, n, d) \in JobDesc
BY DEF NewJob

LEMMA SweepTyped ==
    ASSUME NEW todo \in SUBSET Job, NEW own \in SUBSET Job,
           NEW then \in {"idle", "save", "place", "stage_save"}
    PROVE  /\ Sweep(todo, then, own) \in Cmd
           /\ then \in {"idle", "save"} \/ (then = "place" /\ own # {})
              => CmdInv(Sweep(todo, then, own))
           /\ \A n \in Config : [Sweep(todo, then, own) EXCEPT !.new = n] \in Cmd
           /\ own # {} => \A n \in Config : CmdInv([Sweep(todo, then, own) EXCEPT !.new = n])
BY DEF Sweep, IdleCmd, Cmd, ClientPc, CmdInv

\* A job put at the end of its lane leaves the lanes well typed.
LEMMA LaneTyped ==
    ASSUME NEW d
    PROVE  LaneOfDesc(d) \in Lane
BY DEF LaneOfDesc

LEMMA PlaceTyped ==
    ASSUME NEW q \in [Lane -> Seq(Job)], NEW j \in Job
    PROVE  /\ Place(q, j) \in [Lane -> Seq(Job)]
           /\ \A d : PlaceNew(q, j, d) \in [Lane -> Seq(Job)]
<1>1. \A l \in Lane : [q EXCEPT ![l] = Append(@, j)] \in [Lane -> Seq(Job)]
  OBVIOUS
<1>2. QED
  BY <1>1, LaneTyped DEF Place, PlaceNew

LEMMA InitTypes == Init => TypeInv
<1>1. SUFFICES ASSUME Init PROVE TypeInv
  OBVIOUS
<1>2. JobTypes
  BY <1>1, BoundsAssumption, EmptyRecords DEF Init, JobTypes
<1>3. WorkTypes
  BY <1>1, TaskAssumption DEF Init, WorkTypes, WorkerPc
<1>4. TaskTypes
  BY <1>1, EmptyRecords DEF Init, TaskTypes
<1>5. SaveTypes
  BY <1>1, EmptyRecords DEF Init, SaveTypes
<1>6. FileTypes /\ HistTypes
  BY <1>1, ConfigAssumption, BoundsAssumption DEF Init, FileTypes, HistTypes
<1>7. TaskInv
  BY <1>1 DEF Init, TaskInv, CmdInv, IdleCmd
<1>8. QED
  BY <1>2, <1>3, <1>4, <1>5, <1>6, <1>7 DEF TypeInv, TypeOK

\* A step of one call: its record is replaced by a typed one that keeps TaskInv.
LEMMA CmdStep ==
    ASSUME TypeInv, NEW c \in Client, NEW r \in Cmd, cmd' = [cmd EXCEPT ![c] = r],
           CmdInv(r)
    PROVE  cmd' \in [Client -> Cmd] /\ \A e \in Client : CmdInv(cmd'[e])
BY DEF TypeInv, TypeOK, TaskTypes, TaskInv

LEMMA SubmitOneTypes ==
    ASSUME TypeInv, NEW c \in Client, NEW op, NEW ty \in JobType, NEW g \in Config,
           SubmitOne(c, op, ty, g)
    PROVE  TypeInv'
<1> DEFINE d == NewJob(ty, g, NoConfig, NoJob)
           s == Sweep(ActiveOf(g, {}), "save", {next})
<1>1. next \in Job /\ next + 1 \in 1..(MaxJob + 1)
  BY BoundsAssumption DEF SubmitOne, CanCreate, TypeInv, TypeOK, JobTypes
<1>2. d \in JobDesc
  BY NewJobTyped
<1>3. s \in Cmd /\ CmdInv(s)
  BY <1>1, SweepTyped DEF ActiveOf, TypeInv, TypeOK, JobTypes
<1>4. JobTypes'
  BY <1>1, <1>2 DEF SubmitOne, TypeInv, TypeOK, JobTypes
<1>5. WorkTypes'
  BY <1>1, PlaceTyped DEF SubmitOne, TypeInv, TypeOK, WorkTypes
<1>6. cmd' = [cmd EXCEPT ![c] = s]
  BY DEF SubmitOne
<1>7. TaskTypes'
  BY <1>3, <1>6, CmdStep DEF SubmitOne, TypeInv, TypeOK, TaskTypes
<1>8. SaveTypes' /\ FileTypes' /\ HistTypes'
  BY DEF SubmitOne, TypeInv, TypeOK, SaveTypes, FileTypes, HistTypes, saveVars, fileVars, histVars
<1>9. TaskInv'
  BY <1>3, <1>6, CmdStep DEF SubmitOne, TypeInv, TaskInv
<1>10. QED
  BY <1>4, <1>5, <1>7, <1>8, <1>9 DEF TypeInv, TypeOK

LEMMA InstallTypes ==
    ASSUME TypeInv, NEW c \in Client, NEW g \in Config, Install(c, g)
    PROVE  TypeInv'
<1> DEFINE d == NewJob("compile", g, NoConfig, NoJob)
           e == NewJob("upload", g, NoConfig, next)
           s == Sweep(ActiveOf(g, {}), "save", {next, next + 1})
<1>1. next \in Job /\ next + 1 \in Job /\ next + 2 \in 1..(MaxJob + 1)
  BY BoundsAssumption DEF Install, CanCreate, TypeInv, TypeOK, JobTypes
<1>2. d \in JobDesc /\ e \in JobDesc
  BY <1>1, NewJobTyped
<1>3. s \in Cmd /\ CmdInv(s)
  BY <1>1, SweepTyped DEF ActiveOf, TypeInv, TypeOK, JobTypes
<1>4. JobTypes'
  BY <1>1, <1>2 DEF Install, TypeInv, TypeOK, JobTypes
<1>5. WorkTypes'
  <2>1. PlaceNew(queue, next + 1, desc'[next + 1]) \in [Lane -> Seq(Job)]
    BY <1>1, PlaceTyped DEF TypeInv, TypeOK, WorkTypes
  <2>2. queue' \in [Lane -> Seq(Job)]
    BY <1>1, <2>1, PlaceTyped DEF Install
  <2>3. QED
    BY <2>2 DEF Install, TypeInv, TypeOK, WorkTypes
<1>6. cmd' = [cmd EXCEPT ![c] = s]
  BY DEF Install
<1>7. TaskTypes'
  BY <1>3, <1>6, CmdStep DEF Install, TypeInv, TypeOK, TaskTypes
<1>8. SaveTypes' /\ FileTypes' /\ HistTypes'
  BY DEF Install, TypeInv, TypeOK, SaveTypes, FileTypes, HistTypes, saveVars, fileVars, histVars
<1>9. TaskInv'
  BY <1>3, <1>6, CmdStep DEF Install, TypeInv, TaskInv
<1>10. QED
  BY <1>4, <1>5, <1>7, <1>8, <1>9 DEF TypeInv, TypeOK

LEMMA ResetBuildEnvTypes ==
    ASSUME TypeInv, NEW c \in Client, ResetBuildEnv(c)
    PROVE  TypeInv'
<1> DEFINE d == NewJob("reset", NoConfig, NoConfig, NoJob)
           s == Sweep({j \in known : Active(j)}, "place", {next})
<1>1. next \in Job /\ next + 1 \in 1..(MaxJob + 1)
  BY BoundsAssumption DEF ResetBuildEnv, CanCreate, TypeInv, TypeOK, JobTypes
<1>2. d \in JobDesc
  BY NewJobTyped
<1>3. s \in Cmd /\ CmdInv(s)
  BY <1>1, SweepTyped DEF TypeInv, TypeOK, JobTypes
<1>4. JobTypes'
  BY <1>1, <1>2 DEF ResetBuildEnv, TypeInv, TypeOK, JobTypes
<1>5. cmd' = [cmd EXCEPT ![c] = s]
  BY DEF ResetBuildEnv
<1>6. TaskTypes'
  BY <1>3, <1>5, CmdStep DEF ResetBuildEnv, TypeInv, TypeOK, TaskTypes
<1>7. WorkTypes' /\ SaveTypes' /\ FileTypes' /\ HistTypes'
  BY DEF ResetBuildEnv, TypeInv, TypeOK, WorkTypes, SaveTypes, FileTypes, HistTypes, workVars,
         saveVars, fileVars, histVars
<1>8. TaskInv'
  BY <1>3, <1>5, CmdStep DEF ResetBuildEnv, TypeInv, TaskInv, workVars
<1>9. QED
  BY <1>4, <1>6, <1>7, <1>8 DEF TypeInv, TypeOK

\* The steps of a call that change only its own record, cancel_requested and files.
LEMMA CallStepTypes ==
    ASSUME TypeInv, NEW c \in Client, NEW r \in Cmd, cmd' = [cmd EXCEPT ![c] = r],
           CmdInv(r),
           cancelReq' \subseteq Job,
           UNCHANGED <<jobVars, workVars, saveVars, fileVars, restarts, histVars>>
    PROVE  TypeInv'
<1>1. JobTypes' /\ WorkTypes' /\ SaveTypes' /\ FileTypes' /\ HistTypes'
  BY DEF TypeInv, TypeOK, JobTypes, WorkTypes, SaveTypes, FileTypes, HistTypes, jobVars,
         workVars, saveVars, fileVars, histVars
<1>2. TaskTypes'
  BY CmdStep DEF TaskTypes
<1>3. TaskInv'
  BY CmdStep DEF TypeInv, TaskInv, workVars
<1>4. QED
  BY <1>1, <1>2, <1>3 DEF TypeInv, TypeOK

LEMMA RenameTypes ==
    ASSUME TypeInv, NEW c \in Client, NEW g \in Config, NEW n \in Config, Rename(c, g, n)
    PROVE  TypeInv'
<1> DEFINE r == [IdleCmd EXCEPT !.pc = "fs_lock", !.cfg = g, !.new = n]
<1>1. r \in Cmd /\ CmdInv(r)
  BY DEF IdleCmd, Cmd, ClientPc, CmdInv
<1>2. cmd' = [cmd EXCEPT ![c] = r] /\ cancelReq' \subseteq Job
  BY DEF Rename, TypeInv, TypeOK, TaskTypes
<1>3. QED
  BY <1>1, <1>2, CallStepTypes DEF Rename

LEMMA CancelTypes ==
    ASSUME TypeInv, NEW c \in Client, NEW j \in Job, Cancel(c, j)
    PROVE  TypeInv'
<1> DEFINE r == Sweep({j}, "idle", {})
<1>1. r \in Cmd /\ CmdInv(r)
  BY SweepTyped
<1>2. cmd' = [cmd EXCEPT ![c] = r] /\ cancelReq' \subseteq Job
  BY DEF Cancel, TypeInv, TypeOK, TaskTypes
<1>3. QED
  BY <1>1, <1>2, CallStepTypes DEF Cancel

LEMMA CancelRunningTypes ==
    ASSUME TypeInv, NEW c \in Client, CancelRunning(c)
    PROVE  TypeInv'
<1> DEFINE j == MinOf(cmd[c].todo)
           r == [cmd[c] EXCEPT !.pc = "kill", !.job = j]
<1>1. cmd[c] \in Cmd /\ j \in Job /\ cancelReq \subseteq Job
  BY DEF CancelRunning, TypeInv, TypeOK, TaskTypes, JobTypes
<1>2. r \in Cmd /\ r.pc = "kill" /\ r.job = j /\ SameCall(r, cmd[c])
  BY <1>1 DEF Cmd, ClientPc, SameCall
<1>3. cmd' = [cmd EXCEPT ![c] = r] /\ cancelReq' \subseteq Job
  BY <1>1 DEF CancelRunning
<1>4. CmdInv(r)
  BY <1>1, <1>2 DEF TypeInv, TaskInv, CmdInv, SameCall
<1>5. UNCHANGED <<jobVars, workVars, saveVars, fileVars, restarts, histVars>>
  BY DEF CancelRunning
<1>6. QED
  BY <1>1, <1>2, <1>3, <1>4, <1>5, CallStepTypes

LEMMA CancelMissedTypes ==
    ASSUME TypeInv, NEW c \in Client, CancelMissed(c)
    PROVE  TypeInv'
<1> DEFINE r == [cmd[c] EXCEPT !.todo = cmd[c].todo \ {MinOf(cmd[c].todo)}]
<1>1. cmd[c] \in Cmd /\ cmd[c].pc = "cancel"
  BY DEF CancelMissed, Sweeping, TypeInv, TypeOK, TaskTypes
<1>2. r \in Cmd /\ r.pc = "cancel" /\ SameCall(r, cmd[c])
  BY <1>1 DEF Cmd, ClientPc, SameCall
<1>3. cmd' = [cmd EXCEPT ![c] = r] /\ cancelReq' \subseteq Job
  BY DEF CancelMissed, TypeInv, TypeOK, TaskTypes
<1>4. CmdInv(r)
  BY <1>1, <1>2 DEF TypeInv, TaskInv, CmdInv, SameCall
<1>5. QED
  BY <1>2, <1>3, <1>4, CallStepTypes DEF CancelMissed

LEMMA KilledTypes ==
    ASSUME TypeInv, NEW c \in Client, Killed(c)
    PROVE  TypeInv'
<1> DEFINE r == [cmd[c] EXCEPT !.pc = "cancel", !.todo = cmd[c].todo \ {cmd[c].job}, !.job = NoJob]
<1>1. cmd[c] \in Cmd
  BY DEF TypeInv, TypeOK, TaskTypes
<1>2. r \in Cmd /\ r.pc = "cancel" /\ SameCall(r, cmd[c])
  BY <1>1 DEF Cmd, ClientPc, SameCall
<1>3. cmd' = [cmd EXCEPT ![c] = r] /\ cancelReq' \subseteq Job
  BY DEF Killed, TypeInv, TypeOK, TaskTypes
<1>4. CmdInv(r)
  BY <1>1, <1>2 DEF TypeInv, TaskInv, CmdInv, SameCall
<1>5. QED
  BY <1>2, <1>3, <1>4, CallStepTypes DEF Killed

LEMMA SweepDoneTypes ==
    ASSUME TypeInv, NEW c \in Client, SweepDone(c)
    PROVE  TypeInv'
<1> DEFINE r == IF cmd[c].then = "idle" THEN IdleCmd ELSE [cmd[c] EXCEPT !.pc = cmd[c].then]
<1>1. cmd[c] \in Cmd /\ cmd[c].then \in {"idle", "save", "stage_save"}
  BY DEF SweepDone, TypeInv, TypeOK, TaskTypes, Cmd
<1>2. /\ r \in Cmd /\ r.pc \in {"idle", "save", "stage_save"}
      /\ r = IdleCmd \/ (r.pc = cmd[c].then /\ SameCall(r, cmd[c]))
  <2>1. CASE cmd[c].then = "idle"
    BY <2>1, EmptyRecords DEF IdleCmd
  <2>2. CASE cmd[c].then # "idle"
    BY <1>1, <2>2 DEF Cmd, ClientPc, SameCall
  <2>3. QED
    BY <2>1, <2>2
<1>3. cmd' = [cmd EXCEPT ![c] = r] /\ cancelReq' \subseteq Job
  BY DEF SweepDone, TypeInv, TypeOK, TaskTypes
<1>4. CmdInv(r)
  BY <1>2 DEF TypeInv, TaskInv, IdleCmd, CmdInv, SameCall
<1>5. UNCHANGED <<jobVars, workVars, saveVars, fileVars, restarts, histVars>>
  BY DEF SweepDone
<1>6. QED
  BY <1>2, <1>3, <1>4, <1>5, CallStepTypes

\* A resumed call has released the persist lock; nothing else of the save changes.
LEMMA SaveReturnsTypes ==
    ASSUME TypeInv, NEW p, SaveReturns(p)
    PROVE  SaveTypes'
BY DEF SaveReturns, TypeInv, TypeOK, SaveTypes

LEMMA RenameLockTypes ==
    ASSUME TypeInv, NEW c \in Client, RenameLock(c)
    PROVE  TypeInv'
<1> DEFINE g == cmd[c].cfg
           n == cmd[c].new
           d == NewJob("rename", g, n, next)
           h == NewJob("compile", n, NoConfig, NoJob)
           s == [Sweep(ActiveOf(g, {}), "stage_save", {next, next + 1}) EXCEPT !.new = n]
<1>1. g \in Config \cup {NoConfig} /\ n \in Config
  BY DEF RenameLock, TypeInv, TypeOK, TaskTypes, TaskInv, CmdInv, Cmd
<1>2. UNCHANGED <<workVars, cancelReq, saveVars, files, reverts, restarts, histVars>>
  BY DEF RenameLock
<1>3. WorkTypes' /\ SaveTypes' /\ HistTypes'
  BY <1>2 DEF TypeInv, TypeOK, WorkTypes, SaveTypes, HistTypes, workVars, saveVars, histVars
<1>4. CASE RenameLocked(d) \/ next + 2 > MaxJob + 1
  <2>1. cmd' = [cmd EXCEPT ![c] = IdleCmd] /\ UNCHANGED <<jobVars, fsLock>>
    BY <1>4, BoundsAssumption DEF RenameLock, TypeInv, TypeOK, JobTypes
  <2>2. UNCHANGED <<jobVars, workVars, saveVars, fileVars, restarts, histVars>>
    BY <1>2, <2>1 DEF fileVars
  <2>3. QED
    BY <1>2, <2>1, <2>2, EmptyRecords, CallStepTypes DEF IdleCmd, CmdInv, TypeInv, TypeOK, TaskTypes
<1>5. CASE ~(RenameLocked(d) \/ next + 2 > MaxJob + 1)
  <2>1. /\ fsLock' = c /\ next' = next + 2 /\ known' = known \cup {next, next + 1}
        /\ desc' = [desc EXCEPT ![next] = h, ![next + 1] = d]
        /\ status' = [status EXCEPT ![next] = "queued", ![next + 1] = "queued"]
        /\ cmd' = [cmd EXCEPT ![c] = s] /\ UNCHANGED released
    BY <1>5 DEF RenameLock
  <2>2. next \in Job /\ next + 1 \in Job /\ next + 2 \in 1..(MaxJob + 1)
    BY <1>5, BoundsAssumption DEF TypeInv, TypeOK, JobTypes
  <2>3. h \in JobDesc /\ d \in JobDesc
    BY <1>1, <2>2, NewJobTyped
  <2>4. s \in Cmd /\ CmdInv(s)
    <3>1. ActiveOf(g, {}) \in SUBSET Job /\ {next, next + 1} \in SUBSET Job
      BY <2>2 DEF ActiveOf, TypeInv, TypeOK, JobTypes
    <3>2. QED
      BY <1>1, <3>1, SweepTyped
  <2>5. JobTypes'
    BY <2>1, <2>2, <2>3 DEF TypeInv, TypeOK, JobTypes
  <2>6. TaskTypes'
    BY <1>2, <2>1, <2>4, CmdStep DEF TypeInv, TypeOK, TaskTypes
  <2>7. FileTypes'
    BY <1>2, <2>1 DEF TypeInv, TypeOK, FileTypes
  <2>8. TaskInv'
    BY <1>2, <2>1, <2>4, CmdStep DEF TypeInv, TaskInv, workVars
  <2>9. QED
    BY <1>3, <2>5, <2>6, <2>7, <2>8 DEF TypeInv, TypeOK
<1>6. QED
  BY <1>4, <1>5

LEMMA StageSavedTypes ==
    ASSUME TypeInv, NEW c \in Client, StageSaved(c)
    PROVE  TypeInv'
<1> DEFINE r == [cmd[c] EXCEPT !.pc = "stage_write"]
<1>1. cmd[c] \in Cmd /\ cmd[c].pc = "stage_save"
  BY DEF StageSaved, TypeInv, TypeOK, TaskTypes
<1>2. r \in Cmd /\ r.pc = "stage_write" /\ SameCall(r, cmd[c])
  BY <1>1 DEF Cmd, ClientPc, SameCall
<1>3. cmd' = [cmd EXCEPT ![c] = r] /\ CmdInv(r)
  BY <1>1, <1>2 DEF StageSaved, TypeInv, TaskInv, CmdInv, SameCall
<1>4. UNCHANGED <<jobVars, workVars, cancelReq, fileVars, restarts, histVars>> /\ SaveReturns(c)
  BY DEF StageSaved
<1>5. JobTypes' /\ WorkTypes' /\ FileTypes' /\ HistTypes'
  BY <1>4 DEF TypeInv, TypeOK, JobTypes, WorkTypes, FileTypes, HistTypes, jobVars, workVars,
              fileVars, histVars
<1>6. TaskTypes'
  BY <1>2, <1>3, <1>4, CmdStep DEF TypeInv, TypeOK, TaskTypes
<1>7. TaskInv'
  BY <1>2, <1>3, <1>4, CmdStep DEF TypeInv, TaskInv, workVars
<1>8. QED
  BY <1>4, <1>5, <1>6, <1>7, SaveReturnsTypes DEF TypeInv, TypeOK

LEMMA StageWrittenTypes ==
    ASSUME TypeInv, NEW c \in Client, StageWritten(c)
    PROVE  TypeInv'
<1> DEFINE own == cmd[c].own
           s == Sweep(ActiveOf(cmd[c].new, own), "save", own)
<1>1. cmd[c] \in Cmd /\ own # {} /\ own \subseteq Job /\ cmd[c].new \in Config
  BY DEF StageWritten, TypeInv, TypeOK, TaskTypes, TaskInv, CmdInv, Cmd
<1>2. MinOf(own) \in Job
  BY <1>1, MinInSet, BoundsAssumption
<1>3. s \in Cmd /\ CmdInv(s)
  <2>1. ActiveOf(cmd[c].new, own) \in SUBSET Job
    BY DEF ActiveOf, TypeInv, TypeOK, JobTypes
  <2>2. QED
    BY <1>1, <2>1, SweepTyped
<1>4. cmd' = [cmd EXCEPT ![c] = s]
  BY DEF StageWritten
<1>5. JobTypes' /\ SaveTypes' /\ HistTypes'
  BY DEF StageWritten, TypeInv, TypeOK, JobTypes, SaveTypes, HistTypes, jobVars, saveVars,
         histVars
<1>6. WorkTypes'
  BY <1>2, PlaceTyped DEF StageWritten, TypeInv, TypeOK, WorkTypes
<1>7. TaskTypes'
  BY <1>3, <1>4, CmdStep DEF StageWritten, TypeInv, TypeOK, TaskTypes
<1>8. FileTypes'
  BY <1>1 DEF StageWritten, TypeInv, TypeOK, FileTypes
<1>9. TaskInv'
  BY <1>3, <1>4, CmdStep DEF StageWritten, TypeInv, TaskInv
<1>10. QED
  BY <1>5, <1>6, <1>7, <1>8, <1>9 DEF TypeInv, TypeOK

LEMMA StageFailsTypes ==
    ASSUME TypeInv, NEW c \in Client, StageFails(c)
    PROVE  TypeInv'
<1>1. cmd' = [cmd EXCEPT ![c] = IdleCmd] /\ IdleCmd \in Cmd /\ CmdInv(IdleCmd)
  BY EmptyRecords DEF StageFails, CmdInv, IdleCmd
<1>2. JobTypes' /\ WorkTypes' /\ SaveTypes' /\ FileTypes' /\ HistTypes'
  BY DEF StageFails, TypeInv, TypeOK, JobTypes, WorkTypes, SaveTypes, FileTypes, HistTypes,
         workVars, saveVars, histVars
<1>3. TaskTypes'
  BY <1>1, CmdStep DEF StageFails, TypeInv, TypeOK, TaskTypes
<1>4. TaskInv'
  BY <1>1, CmdStep DEF StageFails, TypeInv, TaskInv, workVars
<1>5. QED
  BY <1>2, <1>3, <1>4 DEF TypeInv, TypeOK

LEMMA CancelQueuedTypes ==
    ASSUME TypeInv, NEW c \in Client, CancelQueued(c)
    PROVE  TypeInv'
<1> DEFINE j == MinOf(cmd[c].todo)
           r == [cmd[c] EXCEPT !.pc = "save1", !.job = j]
<1>1. cmd[c] \in Cmd /\ j \in Job /\ cmd[c].pc = "cancel"
  BY DEF CancelQueued, Sweeping, TypeInv, TypeOK, TaskTypes, JobTypes
<1>2. r \in Cmd /\ r.pc = "save1" /\ r.job = j /\ SameCall(r, cmd[c])
  BY <1>1 DEF Cmd, ClientPc, SameCall
<1>3. cmd' = [cmd EXCEPT ![c] = r] /\ CmdInv(r)
  BY <1>1, <1>2 DEF CancelQueued, TypeInv, TaskInv, CmdInv, SameCall
<1>4. JobTypes'
  <2>1. known' \subseteq known
    BY PruneKeeps DEF CancelQueued
  <2>2. QED
    BY <1>1, <2>1 DEF CancelQueued, TypeInv, TypeOK, JobTypes
<1>5. WorkTypes' /\ SaveTypes' /\ FileTypes' /\ HistTypes'
  BY DEF CancelQueued, TypeInv, TypeOK, WorkTypes, SaveTypes, FileTypes, HistTypes, workVars,
         saveVars, fileVars, histVars
<1>6. TaskTypes'
  BY <1>2, <1>3, CmdStep DEF CancelQueued, TypeInv, TypeOK, TaskTypes
<1>7. TaskInv'
  BY <1>2, <1>3, CmdStep DEF CancelQueued, TypeInv, TaskInv, workVars
<1>8. QED
  BY <1>4, <1>5, <1>6, <1>7 DEF TypeInv, TypeOK

\* Waking the gate keeps the workers typed and busy with what they hold.
LEMMA WokenTypes ==
    ASSUME NEW pc \in [Worker -> WorkerPc]
    PROVE  /\ Woken(pc) \in [Worker -> WorkerPc]
           /\ \A w \in Worker : Woken(pc)[w] # "idle" => pc[w] # "idle"
           /\ \A w \in Worker : pc[w] # "gate" => Woken(pc)[w] = pc[w]
BY DEF Woken, WorkerPc

\* The call goes on with the rest of its sweep.
LEMMA CancelEndsTypes ==
    ASSUME TypeInv, NEW c \in Client, NEW j \in Job, CancelEnds(c, j)
    PROVE  /\ reverts' \subseteq Job
           /\ cmd' \in [Client -> Cmd] /\ \A e \in Client : CmdInv(cmd'[e])
           /\ wpc' \in [Worker -> WorkerPc]
           /\ \A w \in Worker : wpc'[w] # "idle" => wpc[w] # "idle"
<1> DEFINE more == IF IsTail(j) /\ Active(desc[j].dep) THEN {desc[j].dep} ELSE {}
           r == [cmd[c] EXCEPT !.pc = "cancel", !.job = NoJob,
                               !.todo = (cmd[c].todo \ {j}) \cup more]
<1>1. more \subseteq Job
  BY DEF Active, TypeInv, TypeOK, JobTypes
<1>2. cmd[c] \in Cmd
  BY DEF TypeInv, TypeOK, TaskTypes
<1>3. r \in Cmd /\ r.pc = "cancel" /\ SameCall(r, cmd[c])
  BY <1>1, <1>2 DEF Cmd, ClientPc, SameCall
<1>4. cmd' = [cmd EXCEPT ![c] = r] /\ CmdInv(r)
  BY <1>3 DEF CancelEnds, TypeInv, TaskInv, CmdInv, SameCall
<1>5. reverts' \subseteq Job
  BY DEF CancelEnds, TypeInv, TypeOK, FileTypes
<1>6. QED
  BY <1>3, <1>4, <1>5, CmdStep, WokenTypes DEF CancelEnds, TypeInv, TypeOK, WorkTypes

LEMMA CancelSavedTypes ==
    ASSUME TypeInv, NEW c \in Client, CancelSaved(c)
    PROVE  TypeInv'
<1> DEFINE j == cmd[c].job
           held == Held(j)
<1>1. j \in Job /\ held \subseteq Job
  BY DEF CancelSaved, TypeInv, TypeOK, JobTypes, TaskInv, CmdInv, Held, Dependents
<1>2. /\ told' = told \cup {j}
      /\ ends' = [i \in Job |-> IF i = j \/ i \in held THEN ends[i] + 1 ELSE ends[i]]
      /\ SaveReturns(c)
      /\ UNCHANGED <<next, desc, released, queue, wjob, cancelReq, files, fsLock, restarts,
                     acked>>
  BY DEF CancelSaved
<1>3. HistTypes'
  <2>1. ends \in [Job -> Nat]
    BY DEF TypeInv, TypeOK, HistTypes
  <2>2. ends' \in [Job -> Nat]
    BY <1>2, <2>1
  <2>3. QED
    BY <1>1, <1>2, <2>2 DEF TypeInv, TypeOK, HistTypes
<1>4. CASE held = {}
  <2>1. CancelEnds(c, j) /\ UNCHANGED <<status, known>>
    BY <1>4 DEF CancelSaved
  <2>2. JobTypes' /\ WorkTypes' /\ TaskTypes' /\ FileTypes'
    BY <1>1, <1>2, <2>1, CancelEndsTypes DEF TypeInv, TypeOK, JobTypes, WorkTypes, TaskTypes,
                                             FileTypes
  <2>3. TaskInv'
    BY <1>1, <1>2, <2>1, CancelEndsTypes DEF TypeInv, TaskInv
  <2>4. QED
    BY <1>2, <1>3, <2>2, <2>3, SaveReturnsTypes DEF TypeInv, TypeOK
<1>5. CASE held # {}
  <2> DEFINE r == [cmd[c] EXCEPT !.pc = "save2"]
  <2>1. /\ status' = [i \in Job |-> IF i \in held THEN "cancelled" ELSE status[i]]
        /\ known' = Prune(known, status')
        /\ reverts' = reverts \cup {d \in held : IsTail(d)}
        /\ cmd' = [cmd EXCEPT ![c] = r] /\ wpc' = Woken(wpc)
    BY <1>5 DEF CancelSaved
  <2>2. cmd[c] \in Cmd
    BY DEF TypeInv, TypeOK, TaskTypes
  <2>3. r \in Cmd /\ r.pc = "save2" /\ r.job = j /\ SameCall(r, cmd[c])
    BY <2>2 DEF Cmd, ClientPc, SameCall
  <2>4. CmdInv(r)
    BY <1>1, <2>3 DEF TypeInv, TaskInv, CmdInv, SameCall
  <2>5. known' \subseteq known
    BY <2>1, PruneKeeps
  <2>6. JobTypes'
    BY <1>2, <2>1, <2>5 DEF TypeInv, TypeOK, JobTypes
  <2>7. WorkTypes' /\ FileTypes'
    BY <1>1, <1>2, <2>1, WokenTypes DEF TypeInv, TypeOK, WorkTypes, FileTypes
  <2>8. TaskTypes'
    BY <1>2, <2>1, <2>3, <2>4, CmdStep DEF TypeInv, TypeOK, TaskTypes
  <2>9. TaskInv'
    BY <1>2, <2>1, <2>3, <2>4, CmdStep, WokenTypes DEF TypeInv, TypeOK, WorkTypes, TaskInv
  <2>10. QED
    BY <1>2, <1>3, <2>6, <2>7, <2>8, <2>9, SaveReturnsTypes DEF TypeInv, TypeOK
<1>6. QED
  BY <1>4, <1>5

LEMMA CancelSavedAgainTypes ==
    ASSUME TypeInv, NEW c \in Client, CancelSavedAgain(c)
    PROVE  TypeInv'
<1>1. /\ cmd[c].job \in Job /\ CancelEnds(c, cmd[c].job) /\ SaveReturns(c)
      /\ UNCHANGED <<jobVars, queue, wjob, cancelReq, files, fsLock, restarts, histVars>>
  BY DEF CancelSavedAgain, TypeInv, TaskInv, CmdInv
<1>2. JobTypes' /\ HistTypes'
  BY <1>1 DEF TypeInv, TypeOK, JobTypes, HistTypes, jobVars, histVars
<1>3. WorkTypes' /\ TaskTypes' /\ FileTypes'
  BY <1>1, CancelEndsTypes DEF TypeInv, TypeOK, WorkTypes, TaskTypes, FileTypes
<1>4. TaskInv'
  BY <1>1, CancelEndsTypes DEF TypeInv, TaskInv
<1>5. QED
  BY <1>1, <1>2, <1>3, <1>4, SaveReturnsTypes DEF TypeInv, TypeOK

LEMMA ResetSweptTypes ==
    ASSUME TypeInv, NEW c \in Client, ResetSwept(c)
    PROVE  TypeInv'
<1> DEFINE r == [cmd[c] EXCEPT !.pc = "save"]
<1>1. cmd[c] \in Cmd /\ cmd[c].own # {} /\ cmd[c].own \subseteq Job
  BY DEF ResetSwept, TypeInv, TypeOK, TaskTypes, TaskInv, CmdInv, Cmd
<1>2. MinOf(cmd[c].own) \in Job
  BY <1>1, MinInSet, BoundsAssumption
<1>3. r \in Cmd /\ r.pc = "save" /\ SameCall(r, cmd[c])
  BY <1>1 DEF Cmd, ClientPc, SameCall
<1>4. cmd' = [cmd EXCEPT ![c] = r] /\ CmdInv(r)
  BY <1>3 DEF ResetSwept, TypeInv, TaskInv, CmdInv, SameCall
<1>5. JobTypes' /\ SaveTypes' /\ FileTypes' /\ HistTypes'
  BY DEF ResetSwept, TypeInv, TypeOK, JobTypes, SaveTypes, FileTypes, HistTypes, jobVars,
         saveVars, fileVars, histVars
<1>6. WorkTypes'
  BY <1>2, PlaceTyped DEF ResetSwept, TypeInv, TypeOK, WorkTypes
<1>7. TaskTypes'
  BY <1>3, <1>4, CmdStep DEF ResetSwept, TypeInv, TypeOK, TaskTypes
<1>8. TaskInv'
  BY <1>3, <1>4, CmdStep DEF ResetSwept, TypeInv, TaskInv
<1>9. QED
  BY <1>5, <1>6, <1>7, <1>8 DEF TypeInv, TypeOK

LEMMA CommitSavedTypes ==
    ASSUME TypeInv, NEW c \in Client, CommitSaved(c)
    PROVE  TypeInv'
<1>1. cmd' = [cmd EXCEPT ![c] = IdleCmd] /\ IdleCmd \in Cmd /\ CmdInv(IdleCmd)
  BY EmptyRecords DEF CommitSaved, CmdInv, IdleCmd
<1>2. cmd[c].own \subseteq Job
  BY DEF TypeInv, TypeOK, TaskTypes, Cmd
<1>3. JobTypes' /\ WorkTypes' /\ FileTypes'
  BY DEF CommitSaved, TypeInv, TypeOK, JobTypes, WorkTypes, FileTypes, jobVars, workVars
<1>4. HistTypes'
  BY <1>2 DEF CommitSaved, TypeInv, TypeOK, HistTypes
<1>5. TaskTypes'
  BY <1>1, CmdStep DEF CommitSaved, TypeInv, TypeOK, TaskTypes
<1>6. TaskInv'
  BY <1>1, CmdStep DEF CommitSaved, TypeInv, TaskInv, workVars
<1>7. SaveTypes'
  BY SaveReturnsTypes DEF CommitSaved
<1>8. QED
  BY <1>3, <1>4, <1>5, <1>6, <1>7 DEF TypeInv, TypeOK

LEMMA ClearTypes ==
    ASSUME TypeInv, NEW c \in Client, NEW st, Clear(c, st)
    PROVE  TypeInv'
<1> DEFINE r == [IdleCmd EXCEPT !.pc = "save"]
<1>1. cmd' = [cmd EXCEPT ![c] = r] /\ r \in Cmd /\ CmdInv(r)
  BY DEF Clear, CmdInv, IdleCmd, Cmd, ClientPc
<1>2. JobTypes' /\ WorkTypes' /\ SaveTypes' /\ FileTypes' /\ HistTypes'
  BY DEF Clear, TypeInv, TypeOK, JobTypes, WorkTypes, SaveTypes, FileTypes, HistTypes,
         workVars, saveVars, fileVars, histVars
<1>3. TaskTypes'
  BY <1>1, CmdStep DEF Clear, TypeInv, TypeOK, TaskTypes
<1>4. TaskInv'
  BY <1>1, CmdStep DEF Clear, TypeInv, TaskInv, workVars
<1>5. QED
  BY <1>2, <1>3, <1>4 DEF TypeInv, TypeOK

\* The three steps of a save touch only the lock, the snapshot and the disk.
LEMMA SaveStepTypes ==
    ASSUME TypeInv, SaveStep
    PROVE  TypeInv'
<1>1. UNCHANGED <<jobVars, workVars, cancelReq, cmd, fileVars, restarts, histVars>>
  BY DEF SaveStep, SaveBegin, SaveJob, SaveWrite
<1>2. JobTypes' /\ WorkTypes' /\ TaskTypes' /\ FileTypes' /\ HistTypes' /\ TaskInv'
  BY <1>1 DEF TypeInv, TypeOK, JobTypes, WorkTypes, TaskTypes, FileTypes, HistTypes, TaskInv,
              jobVars, workVars, fileVars, histVars
<1>3. SaveTypes'
  <2> DEFINE rec(j) == [status |-> status[j], released |-> released[j]]
  <2>1. \A j \in Job : rec(j) \in DiskRec
    BY DEF TypeInv, TypeOK, JobTypes
  <2>2. CASE \E p \in Proc : SaveBegin(p)
    BY <2>2 DEF SaveBegin, TypeInv, TypeOK, SaveTypes, JobTypes
  <2>3. CASE SaveJob
    <3>1. PICK j : /\ blob' = [blob EXCEPT ![j] = rec(j)] /\ left' = left \ {j}
      BY <2>3 DEF SaveJob
    <3>2. blob' \in [Job -> DiskRec]
      BY <2>1, <3>1 DEF TypeInv, TypeOK, SaveTypes
    <3>3. QED
      BY <2>3, <3>1, <3>2 DEF SaveJob, TypeInv, TypeOK, SaveTypes
  <2>4. CASE SaveWrite
    <3>1. disk' = [j \in Job |-> IF j \in left THEN rec(j) ELSE blob[j]]
      BY <2>4 DEF SaveWrite
    <3>2. disk' \in [Job -> DiskRec]
      BY <2>1, <3>1 DEF TypeInv, TypeOK, SaveTypes
    <3>3. blob' \in [Job -> DiskRec]
      BY <2>4, EmptyRecords DEF SaveWrite
    <3>4. QED
      BY <2>4, <3>2, <3>3 DEF SaveWrite, TypeInv, TypeOK, SaveTypes
  <2>5. QED
    BY <2>2, <2>3, <2>4 DEF SaveStep
<1>4. QED
  BY <1>2, <1>3 DEF TypeInv, TypeOK

\* A worker drops, parks or starts the job it has.
LEMMA ConsiderTypes ==
    ASSUME TypeInv, NEW w \in Worker, NEW j \in Job, Consider(w, j)
    PROVE  /\ status' \in [Job -> Status]
           /\ wpc' \in [Worker -> WorkerPc] /\ wjob' \in [Worker -> Job \cup {NoJob}]
           /\ \A v \in Worker : wpc'[v] # "idle" => wjob'[v] \in Job
<1>1. PICK pc \in {"idle", "gate", "begin"}, h \in {j, NoJob} :
         /\ wpc' = [wpc EXCEPT ![w] = pc] /\ wjob' = [wjob EXCEPT ![w] = h]
         /\ pc # "idle" => h = j
  BY DEF Consider
<1>2. status' \in [Job -> Status]
  BY DEF Consider, TypeInv, TypeOK, JobTypes
<1>3. wpc' \in [Worker -> WorkerPc] /\ wjob' \in [Worker -> Job \cup {NoJob}]
  BY <1>1 DEF WorkerPc, TypeInv, TypeOK, WorkTypes
<1>4. \A v \in Worker : wpc'[v] # "idle" => wjob'[v] \in Job
  BY <1>1 DEF TypeInv, TypeOK, WorkTypes, TaskInv
<1>5. QED
  BY <1>2, <1>3, <1>4

LEMMA TakeTypes ==
    ASSUME TypeInv, NEW w \in Worker, Take(w) \/ Recheck(w)
    PROVE  TypeInv'
<1> DEFINE q == queue[LaneOf[w]]
<1>1. /\ queue' \in [Lane -> Seq(Job)]
      /\ \E j \in Job : Consider(w, j)
      /\ UNCHANGED <<next, known, desc, released, cancelReq, cmd, saveVars, fileVars, restarts,
                     histVars>>
  <2>1. CASE Take(w)
    <3>1. q \in Seq(Job) /\ q # <<>> /\ LaneOf[w] \in Lane
      BY <2>1, TaskAssumption DEF Take, TypeInv, TypeOK, WorkTypes
    <3>2. Head(q) \in Job /\ Tail(q) \in Seq(Job)
      BY <3>1, HeadTailProperties
    <3>3. QED
      BY <2>1, <3>1, <3>2 DEF Take, TypeInv, TypeOK, WorkTypes
  <2>2. CASE Recheck(w)
    BY <2>2 DEF Recheck, TypeInv, TypeOK, WorkTypes, TaskInv
  <2>3. QED
    BY <2>1, <2>2
<1>2. PICK j \in Job : Consider(w, j)
  BY <1>1
<1>3. /\ status' \in [Job -> Status]
      /\ wpc' \in [Worker -> WorkerPc] /\ wjob' \in [Worker -> Job \cup {NoJob}]
      /\ \A v \in Worker : wpc'[v] # "idle" => wjob'[v] \in Job
  BY <1>2, ConsiderTypes
<1>4. JobTypes' /\ WorkTypes' /\ TaskTypes'
  BY <1>1, <1>3 DEF TypeInv, TypeOK, JobTypes, WorkTypes, TaskTypes
<1>5. SaveTypes' /\ FileTypes' /\ HistTypes'
  BY <1>1 DEF TypeInv, TypeOK, SaveTypes, FileTypes, HistTypes, saveVars, fileVars, histVars
<1>6. TaskInv'
  BY <1>1, <1>3 DEF TypeInv, TaskInv
<1>7. QED
  BY <1>4, <1>5, <1>6 DEF TypeInv, TypeOK

\* The steps of a run that move only the worker.
LEMMA RunStepTypes ==
    ASSUME TypeInv, NEW w \in Worker,
           Begun(w) \/ Spawn(w) \/ ExitToEpilogue(w) \/ Ended(w)
    PROVE  TypeInv'
<1>1. UNCHANGED <<jobVars, queue, cancelReq, cmd, fileVars, restarts, histVars>>
  BY DEF Begun, Spawn, ExitToEpilogue, Ended
<1>2. JobTypes' /\ TaskTypes' /\ FileTypes' /\ HistTypes'
  BY <1>1 DEF TypeInv, TypeOK, JobTypes, TaskTypes, FileTypes, HistTypes, jobVars, fileVars,
              histVars
<1>3. WorkTypes'
  BY <1>1 DEF Begun, Spawn, ExitToEpilogue, Ended, TypeInv, TypeOK, WorkTypes, WorkerPc
<1>4. SaveTypes'
  BY SaveReturnsTypes DEF Begun, Spawn, ExitToEpilogue, Ended, TypeInv, TypeOK, SaveTypes,
                          saveVars
<1>5. TaskInv'
  BY <1>1 DEF Begun, Spawn, ExitToEpilogue, Ended, TypeInv, TypeOK, WorkTypes, TaskInv
<1>6. QED
  BY <1>2, <1>3, <1>4, <1>5 DEF TypeInv, TypeOK

\* finalize_terminal and end_run, whatever the outcome of the run.
LEMMA FinishRunTypes ==
    ASSUME TypeInv, NEW w \in Worker, NEW r \in Terminal, NEW offline,
           wpc[w] # "idle", FinishRun(w, r, offline), files' \subseteq files
    PROVE  TypeInv'
<1> DEFINE j == wjob[w]
           held == Held(j)
           go == r = "completed" /\ ~offline
           over == IF go THEN {j} ELSE {j} \cup held
<1>1. j \in Job /\ held \subseteq Job /\ over \subseteq Job
  BY DEF TypeInv, TypeOK, JobTypes, TaskInv, Held, Dependents
<1>2. status' \in [Job -> Status]
  <2>1. status' = [i \in Job |-> IF i = j THEN r
                                 ELSE IF i \in over THEN "cancelled" ELSE status[i]]
    BY DEF FinishRun
  <2>2. QED
    BY <2>1 DEF TypeInv, TypeOK, JobTypes
<1>3. ends' \in [Job -> Nat]
  <2>1. ends' = [i \in Job |-> IF i \in over THEN ends[i] + 1 ELSE ends[i]]
    BY DEF FinishRun
  <2>2. QED
    BY <2>1 DEF TypeInv, TypeOK, HistTypes
<1>4. released' \in [Job -> BOOLEAN]
  <2>1. released' = [i \in Job |-> released[i] \/ (go /\ i \in held)]
    BY DEF FinishRun
  <2>2. QED
    BY <2>1 DEF TypeInv, TypeOK, JobTypes
<1>5. queue' \in [Lane -> Seq(Job)]
  <2>1. queue' = IF go /\ held # {} THEN Place(queue, MinOf(held)) ELSE queue
    BY DEF FinishRun
  <2>2. held # {} => MinOf(held) \in Job
    BY <1>1, MinInSet, BoundsAssumption
  <2>3. QED
    BY <2>1, <2>2, PlaceTyped DEF TypeInv, TypeOK, WorkTypes
<1>6. reverts' \subseteq Job
  BY <1>1 DEF FinishRun, TypeInv, TypeOK, FileTypes
<1>7. known' \subseteq known
  BY PruneKeeps DEF FinishRun
<1>8. wpc' = [Woken(wpc) EXCEPT ![w] = "end"] /\ cancelReq' \subseteq cancelReq
  BY DEF FinishRun
<1>9. UNCHANGED <<next, desc, wjob, cmd, saveVars, fsLock, restarts, acked, told>>
  BY DEF FinishRun
<1>10. JobTypes' /\ WorkTypes'
  BY <1>2, <1>4, <1>5, <1>7, <1>8, <1>9, WokenTypes
  DEF TypeInv, TypeOK, JobTypes, WorkTypes, WorkerPc
<1>11. TaskTypes' /\ FileTypes' /\ HistTypes'
  BY <1>3, <1>6, <1>8, <1>9 DEF TypeInv, TypeOK, TaskTypes, FileTypes, HistTypes
<1>12. SaveTypes'
  BY <1>9 DEF TypeInv, TypeOK, SaveTypes, saveVars
<1>13. TaskInv'
  BY <1>1, <1>8, <1>9, WokenTypes DEF TypeInv, TypeOK, WorkTypes, TaskInv
<1>14. QED
  BY <1>10, <1>11, <1>12, <1>13 DEF TypeInv, TypeOK

LEMMA RevertTypes ==
    ASSUME TypeInv, NEW t \in Job, RevertStart(t) \/ RevertDone(t)
    PROVE  TypeInv'
<1>1. UNCHANGED <<jobVars, workVars, cancelReq, cmd, saveVars, restarts, histVars>>
  BY DEF RevertStart, RevertDone
<1>2. JobTypes' /\ WorkTypes' /\ TaskTypes' /\ SaveTypes' /\ HistTypes' /\ TaskInv'
  BY <1>1 DEF TypeInv, TypeOK, JobTypes, WorkTypes, TaskTypes, SaveTypes, HistTypes, TaskInv,
              jobVars, workVars, saveVars, histVars
<1>3. FileTypes'
  BY DEF RevertStart, RevertDone, TypeInv, TypeOK, FileTypes
<1>4. QED
  BY <1>2, <1>3 DEF TypeInv, TypeOK

LEMMA RestartTypes ==
    ASSUME TypeInv, Restart
    PROVE  TypeInv'
<1>1. status' \in [Job -> Status] /\ released' \in [Job -> BOOLEAN]
  BY DEF Restart, RestoredStatus, TypeInv, TypeOK, SaveTypes
<1>2. known' \subseteq Job /\ UNCHANGED <<next, desc>>
  BY DEF Restart
<1>3. JobTypes'
  BY <1>1, <1>2 DEF TypeInv, TypeOK, JobTypes
<1>4. queue' \in [Lane -> Seq(Job)]
  <2>1. \A l \in Lane : \A s \in Orders(Restored(l)) : s \in Seq(Job)
    BY BoundsAssumption DEF Orders, Restored
  <2>2. PICK qc \in Orders(Restored("compile")), qu \in Orders(Restored("upload")),
             qt \in Orders(Restored("thread")) :
             queue' = [compile |-> qc, upload |-> qu, thread |-> qt]
    BY DEF Restart
  <2>3. QED
    BY <2>1, <2>2
<1>5. WorkTypes'
  BY <1>4 DEF Restart, WorkTypes, WorkerPc
<1>6. TaskTypes'
  BY EmptyRecords DEF Restart, TaskTypes
<1>7. SaveTypes'
  BY EmptyRecords DEF Restart, TypeInv, TypeOK, SaveTypes
<1>8. FileTypes'
  BY DEF Restart, TypeInv, TypeOK, FileTypes
<1>9. HistTypes'
  BY BoundsAssumption DEF Restart, TypeInv, TypeOK, HistTypes
<1>10. TaskInv'
  BY DEF Restart, TaskInv, CmdInv, IdleCmd
<1>11. QED
  BY <1>3, <1>5, <1>6, <1>7, <1>8, <1>9, <1>10 DEF TypeInv, TypeOK

LEMMA NextTypes ==
    ASSUME TypeInv, [Next]_vars
    PROVE  TypeInv'
<1>1. CASE \E c \in Client : Request(c)
  <2>1. PICK c \in Client : Request(c)
    BY <1>1
  <2>2. CASE \E g \in Config : \/ Compile(c, g) \/ Upload(c, g) \/ Clean(c, g)
                               \/ AnalyzeMemory(c, g)
    BY <2>2, SubmitOneTypes DEF Compile, Upload, Clean, AnalyzeMemory
  <2>3. CASE \E g \in Config : Install(c, g)
    BY <2>3, InstallTypes
  <2>4. CASE ResetBuildEnv(c)
    BY <2>4, ResetBuildEnvTypes
  <2>5. CASE \E g, n \in Config : Rename(c, g, n)
    BY <2>5, RenameTypes
  <2>6. CASE \E j \in Job : Cancel(c, j)
    BY <2>6, CancelTypes
  <2>7. CASE \E st \in ClearStatuses : Clear(c, st)
    BY <2>7, ClearTypes
  <2>8. QED
    BY <2>1, <2>2, <2>3, <2>4, <2>5, <2>6, <2>7 DEF Request
<1>2. CASE \E c \in Client : ClientStep(c)
  BY <1>2, RenameLockTypes, StageSavedTypes, StageWrittenTypes, StageFailsTypes,
     CancelQueuedTypes, CancelRunningTypes, CancelMissedTypes, KilledTypes, CancelSavedTypes,
     CancelSavedAgainTypes, SweepDoneTypes, ResetSweptTypes, CommitSavedTypes
  DEF ClientStep
<1>3. CASE \E w \in Worker : WorkerStep(w)
  <2>1. PICK w \in Worker : WorkerStep(w)
    BY <1>3
  <2>2. CASE Take(w) \/ Recheck(w)
    BY <2>2, TakeTypes
  <2>3. CASE Begun(w) \/ Spawn(w) \/ ExitToEpilogue(w) \/ Ended(w)
    BY <2>3, RunStepTypes
  <2>4. CASE PrepFails(w) \/ EpilogueFails(w)
    BY <2>4, FinishRunTypes DEF PrepFails, EpilogueFails
  <2>5. CASE \E ok, offline \in BOOLEAN : Exit(w, ok, offline)
    BY <2>5, FinishRunTypes DEF Exit
  <2>6. CASE EpilogueDone(w)
    BY <2>6, FinishRunTypes DEF EpilogueDone
  <2>7. QED
    BY <2>1, <2>2, <2>3, <2>4, <2>5, <2>6 DEF WorkerStep
<1>4. CASE SaveStep
  BY <1>4, SaveStepTypes
<1>5. CASE RevertStep
  BY <1>5, RevertTypes DEF RevertStep
<1>6. CASE Restart
  BY <1>6, RestartTypes
<1>7. CASE UNCHANGED vars
  BY <1>7 DEF TypeInv, TypeOK, JobTypes, WorkTypes, TaskTypes, SaveTypes, FileTypes, HistTypes,
              TaskInv, CmdInv, vars, jobVars, workVars, saveVars, fileVars, histVars
<1>8. QED
  BY <1>1, <1>2, <1>3, <1>4, <1>5, <1>6, <1>7 DEF Next

\* Every variable keeps its type, whatever the number of jobs, calls, workers and crashes.
THEOREM TypesHold == Spec => []TypeOK
<1>1. Init => TypeInv
  BY InitTypes
<1>2. TypeInv /\ [Next]_vars => TypeInv'
  BY NextTypes
<1>3. TypeInv => TypeOK
  BY DEF TypeInv
<1>4. QED
  BY <1>1, <1>2, <1>3, PTL DEF Spec
=============================================================================
