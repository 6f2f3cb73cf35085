------------------------ MODULE FirmwareQueuePromises ------------------------
(***************************************************************************)
(* What the queue promises the devices and the callers of its API: a wipe  *)
(* spares a flash, a job that was accepted or cancelled is so after a      *)
(* crash, and a rename loses no YAML file.                                 *)
(***************************************************************************)
EXTENDS FirmwareQueueDevices

USE DEF Job, NoJob, Terminal

-----------------------------------------------------------------------------
(* What the steps do to the jobs *)

\* The jobs that are there keep what they are, none comes back, new ones have new ids,
\* and a job starts only from its place and, a flash, when no wipe is active.
Moves ==
    /\ next' >= next
    /\ \A j \in Job : j < next => /\ desc'[j] = desc[j]
                                  /\ status'[j] \in Waiting => status[j] \in Waiting
    /\ \A j \in known' : j \in known \/ j >= next
    /\ \A j \in Job : status'[j] = "running" =>
          status[j] = "running" \/ (status[j] = "queued" /\ Placed(j) /\ ~UploadBlocked(j))

\* A job that is needed was so before, or is in the map; one that was there stays.
Keeps == \A j \in Job : Needed(j)' => (Needed(j) \/ j \in known') /\ (j \in known => j \in known')

LEMMA KeepsKnown ==
    ASSUME KnownInv, Keeps
    PROVE  KnownInv'
BY DEF KnownInv, Keeps

\* What a step that creates the jobs N has in common with the others.
Creates(c, N, r) ==
    /\ next' >= next
    /\ \A j \in N : j >= next /\ j < next'
    /\ known' = known \cup N /\ cmd' = [cmd EXCEPT ![c] = r]
    /\ cmd[c].pc \in {"idle", "fs_lock"}
    /\ \A j \in Job \ N : status'[j] = status[j] /\ desc'[j] = desc[j]
    /\ \A j \in N : status'[j] = "queued"
    /\ UNCHANGED <<released, wpc, wjob, cancelReq, saveVars, files, reverts, restarts, histVars>>
    /\ In(queue') \subseteq In(queue) \cup N
    /\ r.pc = "cancel" /\ r.own = N
    /\ \A i \in known : \A j \in N :
          /\ desc'[j].type \in {"clean", "reset"} /\ Active(i) /\ IsFlash(i)
          /\ desc'[j].type = "reset" \/ desc'[j].cfg = FlashOf(i)
          => i \in r.todo

LEMMA SubmitCreates ==
    ASSUME TypeInv, QueueInv, NEW c \in Client, NEW g \in Config, NEW op,
           NEW ty \in {"compile", "upload", "clean", "analyze"}, SubmitOne(c, op, ty, g)
    PROVE  \E N \in SUBSET Job : \E r : Creates(c, N, r)
<1> DEFINE r == Sweep(ActiveOf(g, {}), "save", {next})
           d == NewJob(ty, g, NoConfig, NoJob)
<1>1. /\ next \in 1..(MaxJob + 1) /\ status \in [Job -> Status] /\ desc \in [Job -> JobDesc]
      /\ known \subseteq Job /\ MaxJob \in Nat /\ queue \in [Lane -> Seq(Job)]
      /\ Distinct(queue) /\ \A j \in Job : j >= next => ~Placed(j)
  BY BoundsAssumption DEF TypeInv, TypeOK, JobTypes, WorkTypes, QueueInv, FreshInv, PlaceInv
<1>2. /\ next \in Job /\ next' = next + 1 /\ known' = known \cup {next}
      /\ desc' = [desc EXCEPT ![next] = d] /\ status' = [status EXCEPT ![next] = "queued"]
      /\ cmd' = [cmd EXCEPT ![c] = r] /\ cmd[c].pc = "idle" /\ ~RenameLocked(d)
      /\ queue' = PlaceNew(queue, next, desc'[next])
      /\ UNCHANGED <<released, wpc, wjob, cancelReq, saveVars, files, reverts, restarts, histVars>>
  BY <1>1 DEF SubmitOne, CanCreate, fileVars
<1>3. r.pc = "cancel" /\ r.own = {next} /\ r.todo = ActiveOf(g, {})
  BY SweepRecord
<1>4. d.cfg = g /\ d.type = ty /\ d.dep = NoJob /\ Touches(d) = {g}
  BY ConfigAssumption DEF NewJob, Touches
<1> HIDE DEF r, d
<1>5. /\ desc'[next] = d
      /\ \A j \in Job \ {next} : status'[j] = status[j] /\ desc'[j] = desc[j]
      /\ status'[next] = "queued"
  BY <1>1, <1>2
<1>6. In(queue') \subseteq In(queue) \cup {next}
  <2>1. queue' = [queue EXCEPT ![LaneOfDesc(d)] = Append(@, next)]
    BY <1>2, <1>4, <1>5 DEF PlaceNew
  <2>2. /\ LaneOfDesc(d) \in Lane /\ next \in Job /\ next \notin In(queue)
        /\ queue \in [Lane -> Seq(Job)] /\ Distinct(queue)
    BY <1>1, <1>2, LaneTyped DEF Placed
  <2>3. In(queue') = In(queue) \cup {next}
    BY <2>1, <2>2, InAppend
  <2>4. QED
    BY <2>3
<1>7. ASSUME NEW i \in known, ty \in {"clean", "reset"}, Active(i), IsFlash(i), g = FlashOf(i)
      PROVE  i \in r.todo
  <2>1. CASE ~IsTail(i)
    BY <1>3, <1>7, <2>1 DEF FlashOf, ActiveOf
  <2>2. CASE IsTail(i)
    <3>1. desc[i].type = "rename" /\ desc[i].new = g /\ g # NoConfig
      BY <1>7, <2>2, ConfigAssumption DEF IsTail, FlashOf
    <3>2. g \in Touches(d) \cap Touches(desc[i])
      BY <1>4, <3>1 DEF Touches
    <3>3. d.type # "rename"
      BY <1>4
    <3>4. QED
      BY <1>2, <1>7, <3>1, <3>2, <3>3 DEF RenameLocked
  <2>3. QED
    BY <2>1, <2>2
<1>8. Creates(c, {next}, r)
  BY <1>1, <1>2, <1>3, <1>4, <1>5, <1>6, <1>7 DEF Creates
<1>9. QED
  BY <1>2, <1>8

LEMMA InstallCreates ==
    ASSUME TypeInv, QueueInv, NEW c \in Client, NEW g \in Config, Install(c, g)
    PROVE  \E N \in SUBSET Job : \E r : Creates(c, N, r)
<1> DEFINE N == {next, next + 1}
           r == Sweep(ActiveOf(g, {}), "save", N)
           d == NewJob("compile", g, NoConfig, NoJob)
           e == NewJob("upload", g, NoConfig, next)
<1>1. /\ next \in 1..(MaxJob + 1) /\ status \in [Job -> Status] /\ desc \in [Job -> JobDesc]
      /\ known \subseteq Job /\ MaxJob \in Nat /\ queue \in [Lane -> Seq(Job)]
      /\ Distinct(queue) /\ \A j \in Job : j >= next => ~Placed(j)
  BY BoundsAssumption DEF TypeInv, TypeOK, JobTypes, WorkTypes, QueueInv, FreshInv, PlaceInv
<1>2. /\ N \in SUBSET Job /\ next' = next + 2 /\ known' = known \cup N
      /\ desc' = [desc EXCEPT ![next] = d, ![next + 1] = e]
      /\ status' = [status EXCEPT ![next] = "queued", ![next + 1] = "queued"]
      /\ cmd' = [cmd EXCEPT ![c] = r] /\ cmd[c].pc = "idle"
      /\ queue' = PlaceNew(PlaceNew(queue, next + 1, desc'[next + 1]), next, desc'[next])
      /\ UNCHANGED <<released, wpc, wjob, cancelReq, saveVars, files, reverts, restarts, histVars>>
  BY <1>1 DEF Install, CanCreate, fileVars
<1>3. r.pc = "cancel" /\ r.own = N
  BY SweepRecord
<1>4. /\ d.dep = NoJob /\ e.dep = next /\ next # NoJob
      /\ d.type = "compile" /\ e.type = "upload"
  BY <1>1 DEF NewJob
<1> HIDE DEF r, d, e
<1>5. /\ desc'[next] = d /\ desc'[next + 1] = e
      /\ \A j \in Job \ N : status'[j] = status[j] /\ desc'[j] = desc[j]
      /\ \A j \in N : status'[j] = "queued" /\ j >= next /\ j < next'
  BY <1>1, <1>2
<1>6. In(queue') \subseteq In(queue) \cup N
  <2>1. queue' = [queue EXCEPT ![LaneOfDesc(d)] = Append(@, next)]
    BY <1>2, <1>4, <1>5 DEF PlaceNew
  <2>2. /\ LaneOfDesc(d) \in Lane /\ next \in Job /\ next \notin In(queue)
        /\ queue \in [Lane -> Seq(Job)] /\ Distinct(queue)
    BY <1>1, <1>2, LaneTyped DEF Placed
  <2>3. In(queue') = In(queue) \cup {next}
    BY <2>1, <2>2, InAppend
  <2>4. QED
    BY <2>3
<1>7. \A j \in N : desc'[j].type \notin {"clean", "reset"}
  BY <1>4, <1>5
<1>8. next' >= next
  BY <1>1, <1>2
<1> HIDE DEF N
<1>9. Creates(c, N, r)
  BY <1>2, <1>3, <1>5, <1>6, <1>7, <1>8 DEF Creates
<1>10. QED
  BY <1>2, <1>9

LEMMA ResetCreates ==
    ASSUME TypeInv, QueueInv, NEW c \in Client, ResetBuildEnv(c)
    PROVE  \E N \in SUBSET Job : \E r : Creates(c, N, r)
<1> DEFINE r == Sweep({j \in known : Active(j)}, "place", {next})
<1>1. /\ next \in 1..(MaxJob + 1) /\ status \in [Job -> Status] /\ desc \in [Job -> JobDesc]
      /\ known \subseteq Job /\ MaxJob \in Nat
  BY BoundsAssumption DEF TypeInv, TypeOK, JobTypes
<1>2. /\ next \in Job /\ next' = next + 1 /\ known' = known \cup {next}
      /\ desc' = [desc EXCEPT ![next] = NewJob("reset", NoConfig, NoConfig, NoJob)]
      /\ status' = [status EXCEPT ![next] = "queued"]
      /\ cmd' = [cmd EXCEPT ![c] = r] /\ cmd[c].pc = "idle" /\ queue' = queue
      /\ UNCHANGED <<released, wpc, wjob, cancelReq, saveVars, files, reverts, restarts, histVars>>
  BY <1>1 DEF ResetBuildEnv, CanCreate, fileVars, workVars
<1>3. r.pc = "cancel" /\ r.own = {next} /\ r.todo = {j \in known : Active(j)}
  BY SweepRecord
<1> HIDE DEF r
<1>4. /\ \A j \in Job \ {next} : status'[j] = status[j] /\ desc'[j] = desc[j]
      /\ status'[next] = "queued"
  BY <1>1, <1>2
<1>5. Creates(c, {next}, r)
  BY <1>1, <1>2, <1>3, <1>4 DEF Creates
<1>6. QED
  BY <1>2, <1>5

LEMMA RenameCreates ==
    ASSUME TypeInv, QueueInv, NEW c \in Client, RenameLock(c), fsLock' = c, fsLock # c
    PROVE  \E N \in SUBSET Job : \E r : Creates(c, N, r)
<1> DEFINE g == cmd[c].cfg
           n == cmd[c].new
           N == {next, next + 1}
           r == [Sweep(ActiveOf(g, {}), "stage_save", N) EXCEPT !.new = n]
           h == NewJob("compile", n, NoConfig, NoJob)
           d == NewJob("rename", g, n, next)
<1>1. /\ next \in 1..(MaxJob + 1) /\ status \in [Job -> Status] /\ desc \in [Job -> JobDesc]
      /\ known \subseteq Job /\ MaxJob \in Nat
  BY BoundsAssumption DEF TypeInv, TypeOK, JobTypes
<1>2. /\ next + 2 <= MaxJob + 1 /\ known' = known \cup N
      /\ desc' = [desc EXCEPT ![next] = h, ![next + 1] = d] /\ next' = next + 2
      /\ status' = [status EXCEPT ![next] = "queued", ![next + 1] = "queued"]
      /\ cmd' = [cmd EXCEPT ![c] = r] /\ cmd[c].pc = "fs_lock" /\ released' = released
  BY Zenon DEF RenameLock
<1>3. /\ queue' = queue
      /\ UNCHANGED <<wpc, wjob, cancelReq, saveVars, files, reverts, restarts, histVars>>
  BY DEF RenameLock, workVars
<1>4. r.pc = "cancel" /\ r.own = N
  BY DEF Sweep, IdleCmd
<1>5. h.type = "compile" /\ d.type = "rename"
  BY DEF NewJob
<1> HIDE DEF r, h, d, g, n
<1>6. /\ desc'[next] = h /\ desc'[next + 1] = d /\ N \in SUBSET Job /\ next' >= next
      /\ \A j \in Job \ N : status'[j] = status[j] /\ desc'[j] = desc[j]
      /\ \A j \in N : status'[j] = "queued" /\ j >= next /\ j < next'
  BY <1>1, <1>2
<1>7. \A j \in N : desc'[j].type \notin {"clean", "reset"}
  BY <1>5, <1>6
<1> HIDE DEF N
<1>8. Creates(c, N, r)
  BY <1>2, <1>3, <1>4, <1>6, <1>7 DEF Creates
<1>9. QED
  BY <1>6, <1>8

\* The operations that create jobs, and the other requests and steps of a call.
Creation(c) ==
    \/ \E g \in Config : \/ \E op : \E ty \in {"compile", "upload", "clean", "analyze"} :
                               SubmitOne(c, op, ty, g)
                         \/ Install(c, g)
    \/ ResetBuildEnv(c)
    \/ RenameLock(c) /\ fsLock' = c /\ fsLock # c

LEMMA CreationCreates ==
    ASSUME TypeInv, QueueInv, NEW c \in Client, Creation(c)
    PROVE  \E N \in SUBSET Job : \E r : Creates(c, N, r)
BY SubmitCreates, InstallCreates, ResetCreates, RenameCreates DEF Creation

LEMMA CreationMoves ==
    ASSUME TypeInv, TypeInv', QueueInv, NEW c \in Client, NEW N \in SUBSET Job, NEW r,
           Creates(c, N, r)
    PROVE  Moves /\ Keeps
<1>1. next \in Nat /\ next' \in Nat /\ known \subseteq Job /\ N \subseteq Nat
  BY DEF TypeInv, TypeOK, JobTypes
<1>2. Moves
  BY <1>1 DEF Creates, Moves
<1>3. \A b \in Client : cmd'[b] = IF b = c THEN r ELSE cmd[b]
  BY DEF TypeInv, TypeOK, TaskTypes, Creates
<1>4. \A j : Placed(j)' => Placed(j) \/ j \in N
  BY DEF Creates, Placed
<1>5. \A j : Awaited(j)' => Awaited(j) \/ j \in N
  BY <1>3 DEF Creates, Awaited
<1>6. \A j \in Job \ N : Needed(j)' => Needed(j)
  BY <1>4, <1>5 DEF Creates, Needed
<1>7. Keeps
  BY <1>6 DEF Keeps, Creates
<1>8. QED
  BY <1>2, <1>7

\* What a step of a call that creates no job may do: move the call on to r, place jobs it
\* stages, cancel queued jobs, and drop from the map jobs that are over or a chain whose
\* YAML could not be written.  A call at a save goes on only with the lock in its hand.
CallMoves(c, r) ==
    /\ cmd' = [cmd EXCEPT ![c] = r]
    /\ UNCHANGED <<next, desc, released, wjob, left, blob, disk, restarts>>
    /\ Staging(r) => Staging(cmd[c])
    /\ r.own = cmd[c].own \/ r.own = {}
    /\ known' \subseteq known
    /\ \A j \in Job : status'[j] = status[j] \/ (status[j] = "queued" /\ status'[j] = "cancelled")
    /\ In(queue') \subseteq In(queue) \cup (IF Staging(cmd[c]) THEN cmd[c].own ELSE {})
    /\ LiveKept => \A j \in known : status'[j] \in Waiting =>
          j \in known' \/ (/\ j \in cmd[c].own /\ Staging(cmd[c]) /\ r.own = {}
                           /\ queue' = queue /\ UNCHANGED status)
    /\ IF cmd[c].pc \in SavePc THEN holder = c /\ saved /\ holder' = NoOne /\ saved' = FALSE
                               ELSE UNCHANGED <<holder, saved>>
    /\ acked' = acked \/ (cmd[c].pc = "save" /\ acked' = acked \cup cmd[c].own)
    /\ told' = told \/ (cmd[c].pc = "save1" /\ told' = told \cup {cmd[c].job})

LEMMA RequestMoves ==
    ASSUME TypeInv, NEW c \in Client,
           \/ \E g, n \in Config : Rename(c, g, n)
           \/ \E j \in Job : Cancel(c, j)
           \/ \E st \in ClearStatuses : Clear(c, st)
           \/ RenameLock(c) /\ UNCHANGED fsLock
    PROVE  \E r : CallMoves(c, r)
<1>1. CASE \E g, n \in Config : Rename(c, g, n)
  <2>1. PICK g \in Config, n \in Config : Rename(c, g, n)
    BY <1>1
  <2> DEFINE r == [IdleCmd EXCEPT !.pc = "fs_lock", !.cfg = g, !.new = n]
  <2>2. r.own = {} /\ ~Staging(r)
    BY DEF IdleCmd, Staging
  <2>3. /\ cmd' = [cmd EXCEPT ![c] = r] /\ cmd[c].pc = "idle"
        /\ UNCHANGED <<jobVars, workVars, saveVars, restarts, histVars>>
    BY <2>1 DEF Rename, CanCreate
  <2> HIDE DEF r
  <2>4. QED
    BY <2>2, <2>3 DEF CallMoves, SavePc, jobVars, workVars, saveVars, histVars
<1>2. CASE \E j \in Job : Cancel(c, j)
  <2>1. PICK j \in Job : Cancel(c, j)
    BY <1>2
  <2> DEFINE r == Sweep({j}, "idle", {})
  <2>2. r.own = {} /\ ~Staging(r)
    BY SweepRecord DEF Staging
  <2>3. /\ cmd' = [cmd EXCEPT ![c] = r] /\ cmd[c].pc = "idle"
        /\ UNCHANGED <<jobVars, workVars, saveVars, restarts, histVars>>
    BY <2>1 DEF Cancel
  <2> HIDE DEF r
  <2>4. QED
    BY <2>2, <2>3 DEF CallMoves, SavePc, jobVars, workVars, saveVars, histVars
<1>3. CASE \E st \in ClearStatuses : Clear(c, st)
  <2>1. PICK st \in ClearStatuses : Clear(c, st)
    BY <1>3
  <2> DEFINE r == [IdleCmd EXCEPT !.pc = "save"]
  <2>2. r.own = {} /\ ~Staging(r)
    BY DEF IdleCmd, Staging
  <2>3. /\ cmd' = [cmd EXCEPT ![c] = r] /\ cmd[c].pc = "idle"
        /\ UNCHANGED <<next, desc, status, released, workVars, saveVars, restarts, histVars>>
    BY <2>1 DEF Clear
  <2>4. PICK gone : /\ known' = known \ gone
                    /\ gone = {j \in known : IF st = "finished" THEN status[j] \in Terminal
                                             ELSE status[j] = st}
    BY <2>1 DEF Clear
  <2>5. LiveKept => \A j \in gone : status[j] \notin Waiting
    BY <2>4 DEF LiveKept, Waiting
  <2> HIDE DEF r
  <2>6. QED
    BY <2>2, <2>3, <2>4, <2>5 DEF CallMoves, SavePc, workVars, saveVars, histVars
<1>4. CASE RenameLock(c) /\ UNCHANGED fsLock
  <2>1. fsLock = NoOne /\ NoOne # c
    BY <1>4, TaskAssumption DEF RenameLock, Proc
  <2>2. cmd' = [cmd EXCEPT ![c] = IdleCmd] /\ UNCHANGED jobVars
    BY <1>4, <2>1 DEF RenameLock
  <2>3. IdleCmd.own = {} /\ ~Staging(IdleCmd)
    BY DEF IdleCmd, Staging
  <2>4. cmd[c].pc = "fs_lock" /\ UNCHANGED <<workVars, saveVars, restarts, histVars>>
    BY <1>4 DEF RenameLock
  <2>5. QED
    BY <2>2, <2>3, <2>4 DEF CallMoves, SavePc, jobVars, workVars, saveVars, histVars
<1>5. QED
  BY <1>1, <1>2, <1>3, <1>4

LEMMA SweepMoves ==
    ASSUME TypeInv, NEW c \in Client,
           \/ CancelQueued(c) \/ CancelRunning(c) \/ CancelMissed(c) \/ Killed(c)
           \/ SweepDone(c)
    PROVE  \E r : CallMoves(c, r)
<1>0. /\ cmd[c] \in Cmd /\ IdleCmd.own = {} /\ ~Staging(IdleCmd)
      /\ status \in [Job -> Status] /\ known \subseteq Job
  BY DEF IdleCmd, Staging, TypeInv, TypeOK, TaskTypes, JobTypes
<1>1. UNCHANGED <<next, desc, released, workVars, saveVars, restarts, histVars>>
  BY DEF CancelQueued, CancelRunning, CancelMissed, Killed, SweepDone, jobVars
<1>2. CASE CancelQueued(c)
  <2> DEFINE j == MinOf(cmd[c].todo)
             r == [cmd[c] EXCEPT !.pc = "save1", !.job = j]
  <2>1. /\ cmd' = [cmd EXCEPT ![c] = r] /\ cmd[c].pc = "cancel" /\ status[j] = "queued"
        /\ status' = [status EXCEPT ![j] = "cancelled"] /\ known' = Prune(known, status')
    BY <1>2 DEF CancelQueued, Sweeping
  <2>2. r.own = cmd[c].own /\ r.then = cmd[c].then /\ (Staging(r) => Staging(cmd[c]))
    BY <1>0, <2>1 DEF Staging, Cmd
  <2> HIDE DEF r, j
  <2>3. /\ \A i \in Job : status'[i] = status[i]
                          \/ (status[i] = "queued" /\ status'[i] = "cancelled")
        /\ \A i \in known : status'[i] \in Waiting => status'[i] \notin Terminal
    BY <1>0, <2>1 DEF Waiting
  <2>4. known' \subseteq known /\ \A i \in known : status'[i] \in Waiting => i \in known'
    BY <2>1, <2>3, PruneKeeps
  <2>5. QED
    BY <1>1, <2>1, <2>2, <2>3, <2>4 DEF CallMoves, SavePc, workVars, saveVars, histVars
<1>3. CASE CancelRunning(c) \/ CancelMissed(c) \/ Killed(c)
  <2>1. PICK r : /\ cmd' = [cmd EXCEPT ![c] = r] /\ r.own = cmd[c].own /\ r.then = cmd[c].then
                 /\ r.pc \in {"cancel", "kill"}
    <3> DEFINE j == MinOf(cmd[c].todo)
               x == [cmd[c] EXCEPT !.pc = "kill", !.job = j]
               y == [cmd[c] EXCEPT !.todo = cmd[c].todo \ {j}]
               z == [cmd[c] EXCEPT !.pc = "cancel", !.todo = cmd[c].todo \ {cmd[c].job},
                                   !.job = NoJob]
    <3>0. /\ x.own = cmd[c].own /\ x.then = cmd[c].then /\ x.pc = "kill"
          /\ y.own = cmd[c].own /\ y.then = cmd[c].then /\ y.pc = cmd[c].pc
          /\ z.own = cmd[c].own /\ z.then = cmd[c].then /\ z.pc = "cancel"
      BY <1>0 DEF Cmd
    <3>1. CASE CancelRunning(c)
      <4>1. cmd' = [cmd EXCEPT ![c] = x]
        BY <3>1 DEF CancelRunning
      <4>2. QED
        BY <3>0, <4>1
    <3>2. CASE CancelMissed(c)
      <4>1. cmd' = [cmd EXCEPT ![c] = y] /\ cmd[c].pc = "cancel"
        BY <3>2 DEF CancelMissed, Sweeping
      <4>2. QED
        BY <3>0, <4>1
    <3>3. CASE Killed(c)
      <4>1. cmd' = [cmd EXCEPT ![c] = z]
        BY <3>3 DEF Killed
      <4>2. QED
        BY <3>0, <4>1
    <3>4. QED
      BY <1>3, <3>1, <3>2, <3>3
  <2>2. cmd[c].pc \in {"cancel", "kill"} /\ UNCHANGED <<status, known>>
    BY <1>3 DEF CancelRunning, CancelMissed, Killed, Sweeping, jobVars
  <2>3. Staging(r) => Staging(cmd[c])
    BY <2>1, <2>2 DEF Staging
  <2>4. QED
    BY <1>1, <2>1, <2>2, <2>3 DEF CallMoves, SavePc, workVars, saveVars, histVars
<1>4. CASE SweepDone(c)
  <2>1. cmd[c].pc = "cancel" /\ UNCHANGED <<status, known>>
    BY <1>4 DEF SweepDone, jobVars
  <2>2. CASE cmd[c].then = "idle"
    <3>1. cmd' = [cmd EXCEPT ![c] = IdleCmd]
      BY <1>4, <2>2 DEF SweepDone
    <3>2. QED
      BY <1>0, <1>1, <2>1, <3>1 DEF CallMoves, SavePc, workVars, saveVars, histVars
  <2>3. CASE cmd[c].then # "idle"
    <3> DEFINE r == [cmd[c] EXCEPT !.pc = cmd[c].then]
    <3>1. cmd' = [cmd EXCEPT ![c] = r]
      BY <1>4, <2>3 DEF SweepDone
    <3>2. r.own = cmd[c].own /\ r.then = cmd[c].then /\ (Staging(r) => Staging(cmd[c]))
      BY <1>0, <1>4 DEF SweepDone, Staging, Cmd
    <3> HIDE DEF r
    <3>3. QED
      BY <1>1, <2>1, <3>1, <3>2 DEF CallMoves, SavePc, workVars, saveVars, histVars
  <2>4. QED
    BY <2>2, <2>3
<1>5. QED
  BY <1>2, <1>3, <1>4

LEMMA SavedMoves ==
    ASSUME TypeInv, NEW c \in Client,
           \/ StageSaved(c) \/ CancelSaved(c) \/ CancelSavedAgain(c) \/ CommitSaved(c)
    PROVE  \E r : CallMoves(c, r)
<1>0. /\ cmd[c] \in Cmd /\ IdleCmd.own = {} /\ ~Staging(IdleCmd)
      /\ status \in [Job -> Status] /\ known \subseteq Job
  BY DEF IdleCmd, Staging, TypeInv, TypeOK, TaskTypes, JobTypes
<1>1. /\ cmd[c].pc \in SavePc /\ holder = c /\ saved /\ holder' = NoOne /\ saved' = FALSE
      /\ UNCHANGED <<next, desc, released, queue, wjob, left, blob, disk, restarts>>
  BY DEF StageSaved, CancelSaved, CancelSavedAgain, CommitSaved, SaveReturns, SavePc, jobVars,
     workVars
<1>2. CASE StageSaved(c)
  <2> DEFINE r == [cmd[c] EXCEPT !.pc = "stage_write"]
  <2>1. r.own = cmd[c].own /\ Staging(cmd[c])
    BY <1>0, <1>2 DEF StageSaved, Staging, Cmd
  <2>2. cmd' = [cmd EXCEPT ![c] = r] /\ UNCHANGED <<status, known, histVars>>
    BY <1>2 DEF StageSaved, jobVars
  <2> HIDE DEF r
  <2>3. QED
    BY <1>1, <2>1, <2>2 DEF CallMoves, histVars
<1>3. CASE CommitSaved(c)
  BY <1>0, <1>1, <1>3 DEF CommitSaved, CallMoves, jobVars
<1>4. CASE CancelSaved(c) \/ CancelSavedAgain(c)
  <2>1. PICK r : /\ cmd' = [cmd EXCEPT ![c] = r] /\ r.own = cmd[c].own /\ r.then = cmd[c].then
                 /\ r.pc \in {"cancel", "save2"}
    <3> DEFINE j == cmd[c].job
               x == [cmd[c] EXCEPT !.pc = "cancel", !.job = NoJob,
                       !.todo = (cmd[c].todo \ {j}) \cup
                           (IF IsTail(j) /\ Active(desc[j].dep) THEN {desc[j].dep} ELSE {})]
               y == [cmd[c] EXCEPT !.pc = "save2"]
    <3>1. /\ x.own = cmd[c].own /\ x.then = cmd[c].then /\ x.pc = "cancel"
          /\ y.own = cmd[c].own /\ y.then = cmd[c].then /\ y.pc = "save2"
      BY <1>0 DEF Cmd
    <3>2. cmd' = [cmd EXCEPT ![c] = x] \/ cmd' = [cmd EXCEPT ![c] = y]
      BY <1>4 DEF CancelSaved, CancelSavedAgain, CancelEnds
    <3>3. QED
      BY <3>1, <3>2
  <2>2. cmd[c].pc \in {"save1", "save2"}
    BY <1>4 DEF CancelSaved, CancelSavedAgain
  <2>3. Staging(r) => Staging(cmd[c])
    BY <2>1, <2>2 DEF Staging
  <2>4. \/ UNCHANGED <<status, known>>
        \/ /\ status' = [i \in Job |-> IF i \in Held(cmd[c].job) THEN "cancelled" ELSE status[i]]
           /\ known' = Prune(known, status')
    BY <1>4 DEF CancelSaved, CancelSavedAgain, jobVars
  <2>5. \A i \in Job : status'[i] = status[i]
                       \/ (status[i] = "queued" /\ status'[i] = "cancelled")
    BY <2>4 DEF Held
  <2>6. known' \subseteq known /\ \A i \in known : status'[i] \in Waiting => i \in known'
    <3>1. \A i : status'[i] \in Waiting => status'[i] \notin Terminal
      BY DEF Waiting
    <3>2. QED
      BY <2>4, <3>1, PruneKeeps
  <2>7. acked' = acked /\ (told' = told \/ (cmd[c].pc = "save1" /\ told' = told \cup {cmd[c].job}))
    BY <1>4 DEF CancelSaved, CancelSavedAgain, histVars
  <2>8. QED
    BY <1>1, <2>1, <2>3, <2>5, <2>6, <2>7 DEF CallMoves
<1>5. QED
  BY <1>2, <1>3, <1>4

LEMMA StageMoves ==
    ASSUME TypeInv, QueueInv, NEW c \in Client,
           StageWritten(c) \/ StageFails(c) \/ ResetSwept(c)
    PROVE  \E r : CallMoves(c, r)
<1>0. /\ cmd[c] \in Cmd /\ IdleCmd.own = {} /\ ~Staging(IdleCmd) /\ Staging(cmd[c])
      /\ queue \in [Lane -> Seq(Job)] /\ Distinct(queue)
      /\ CmdInv(cmd[c]) /\ cmd[c].own \subseteq Job /\ cmd[c].pc \in {"stage_write", "cancel"}
  BY DEF IdleCmd, Staging, TypeInv, TypeOK, TaskTypes, WorkTypes, TaskInv, Cmd, QueueInv,
     PlaceInv, StageWritten, StageFails, ResetSwept
<1>1. /\ UNCHANGED <<next, desc, released, status, wjob, left, blob, disk, holder, saved>>
      /\ UNCHANGED <<restarts, acked, told>>
  BY DEF StageWritten, StageFails, ResetSwept, jobVars, workVars, saveVars, histVars
<1>2. CASE StageFails(c)
  BY <1>0, <1>1, <1>2 DEF StageFails, CallMoves, workVars, SavePc
<1>3. CASE StageWritten(c) \/ ResetSwept(c)
  <2>1. PICK r : cmd' = [cmd EXCEPT ![c] = r] /\ r.own = cmd[c].own /\ ~Staging(r)
    <3> DEFINE x == Sweep(ActiveOf(cmd[c].new, cmd[c].own), "save", cmd[c].own)
               y == [cmd[c] EXCEPT !.pc = "save"]
    <3>1. CASE StageWritten(c)
      <4>1. x.own = cmd[c].own /\ ~Staging(x)
        BY SweepRecord DEF Staging
      <4>2. cmd' = [cmd EXCEPT ![c] = x]
        BY <3>1 DEF StageWritten
      <4>3. QED
        BY <4>1, <4>2
    <3>2. CASE ResetSwept(c)
      <4>1. y.own = cmd[c].own /\ ~Staging(y)
        BY <1>0 DEF Staging, Cmd
      <4>2. cmd' = [cmd EXCEPT ![c] = y]
        BY <3>2 DEF ResetSwept
      <4>3. QED
        BY <4>1, <4>2
    <3>3. QED
      BY <1>3, <3>1, <3>2
  <2>2. known' = known
    BY <1>3 DEF StageWritten, ResetSwept, jobVars
  <2> DEFINE h == MinOf(cmd[c].own)
  <2>3. h \in cmd[c].own /\ h \in Job /\ h \notin In(queue)
    <3>1. cmd[c].own # {}
      BY <1>0, <1>3 DEF CmdInv, StageWritten, ResetSwept
    <3>2. h \in cmd[c].own
      BY <1>0, <3>1, MinInSet
    <3>3. QED
      BY <1>0, <3>2 DEF QueueInv, StageInv, Placed
  <2>4. queue' = queue \/ queue' = [queue EXCEPT ![LaneOfDesc(desc[h])] = Append(@, h)]
    BY <1>3 DEF StageWritten, ResetSwept, PlaceNew, Place
  <2> HIDE DEF h
  <2>5. LaneOfDesc(desc[h]) \in Lane
    BY LaneTyped
  <2>6. In([queue EXCEPT ![LaneOfDesc(desc[h])] = Append(@, h)]) = In(queue) \cup {h}
    <3>1. queue \in [Lane -> Seq(Job)] /\ Distinct(queue) /\ h \in Job /\ h \notin In(queue)
      BY <1>0, <2>3
    <3>2. QED
      BY <2>5, <3>1, InAppend
  <2>7. In(queue') \subseteq In(queue) \cup cmd[c].own
    BY <2>3, <2>4, <2>6
  <2>8. QED
    BY <1>0, <1>1, <2>1, <2>2, <2>7 DEF CallMoves, SavePc
<1>4. QED
  BY <1>2, <1>3

LEMMA CallsMove ==
    ASSUME TypeInv, TypeInv', QueueInv, NEW c \in Client, NEW r, CallMoves(c, r)
    PROVE  Moves /\ (LiveKept => Keeps)
<1>1. next \in Nat /\ known \subseteq Job /\ cmd[c].own \subseteq Job
  BY DEF TypeInv, TypeOK, JobTypes, TaskTypes, Cmd
<1>2. Moves
  BY <1>1 DEF Moves, CallMoves, Waiting
<1>3. \A b \in Client : cmd'[b] = IF b = c THEN r ELSE cmd[b]
  BY DEF TypeInv, TypeOK, TaskTypes, CallMoves
<1>4. \A j : Awaited(j)' => Awaited(j)
  BY <1>3 DEF CallMoves, Awaited
<1>5. \A j : Placed(j)' => Placed(j) \/ Awaited(j)
  BY DEF CallMoves, Placed, Awaited
<1>6. \A j \in Job : Needed(j)' => Needed(j)
  BY <1>4, <1>5 DEF CallMoves, Needed
<1>7. ASSUME LiveKept, NEW j \in known, Needed(j)'
      PROVE  j \in known'
  <2>1. SUFFICES ASSUME /\ j \in cmd[c].own /\ Staging(cmd[c]) /\ r.own = {}
                        /\ queue' = queue /\ UNCHANGED status
                 PROVE  FALSE
    BY <1>7 DEF CallMoves, Needed, Waiting
  <2>2. ~Placed(j) /\ status[j] \in Idling
    BY <2>1 DEF QueueInv, StageInv
  <2>3. ~Awaited(j)'
    BY <1>3, <2>1 DEF Awaited, QueueInv, StageInv
  <2>4. ~Placed(j)'
    BY <2>1, <2>2 DEF Placed, CallMoves
  <2>5. status'[j] # "running"
    BY <2>1, <2>2 DEF Idling
  <2>6. QED
    BY <1>7, <2>3, <2>4, <2>5 DEF Needed
<1>8. LiveKept => Keeps
  BY <1>6, <1>7 DEF Keeps
<1>9. QED
  BY <1>2, <1>8

\* A worker takes a job from its lane or looks at the one it parked.
LEMMA TakeMoves ==
    ASSUME TypeInv, TypeInv', QueueInv, NEW w \in Worker, Take(w) \/ Recheck(w)
    PROVE  Moves /\ Keeps
<1>1. /\ next \in Nat /\ known \subseteq Job /\ status \in [Job -> Status]
      /\ wjob \in [Worker -> Job \cup {NoJob}]
  BY DEF TypeInv, TypeOK, JobTypes, WorkTypes
<1>2. PICK j \in Job : /\ Consider(w, j) /\ status[j] \in Idling /\ Placed(j)
                       /\ In(queue') \subseteq In(queue)
  <2>1. CASE Take(w)
    <3>1. /\ LaneOf[w] \in Lane /\ queue \in [Lane -> Seq(Job)] /\ queue[LaneOf[w]] # <<>>
          /\ Distinct(queue) /\ Consider(w, Head(queue[LaneOf[w]]))
          /\ queue' = [queue EXCEPT ![LaneOf[w]] = Tail(@)]
      BY <2>1, TaskAssumption DEF Take, TypeInv, TypeOK, WorkTypes, QueueInv, PlaceInv
    <3> DEFINE h == Head(queue[LaneOf[w]])
    <3>2. h \in In(queue) /\ h \in Job
      BY <3>1, InTail, InTyped
    <3>3. In(queue') \subseteq In(queue)
      BY <3>1, InTail
    <3>4. status[h] \in Idling /\ Placed(h)
      BY <3>2 DEF QueueInv, StatusInv, Placed
    <3>5. QED
      BY <3>1, <3>2, <3>3, <3>4
  <2>2. CASE Recheck(w)
    <3>1. wpc[w] = "woken" /\ Consider(w, wjob[w]) /\ queue' = queue
      BY <2>2 DEF Recheck
    <3>2. wjob[w] \in Job /\ status[wjob[w]] \in Idling /\ Placed(wjob[w])
      BY <3>1 DEF TypeInv, TaskInv, QueueInv, StatusInv, Placed
    <3>3. QED
      BY <3>1, <3>2
  <2>3. QED
    BY <2>1, <2>2
<1>3. UNCHANGED <<next, known, desc, cmd>>
  BY DEF Take, Recheck
<1>4. \/ UNCHANGED status
      \/ /\ status[j] = "queued" /\ ~UploadBlocked(j)
         /\ status' = [status EXCEPT ![j] = "running"]
  BY <1>2 DEF Consider, Dropped, Idling
<1>5. Moves
  <2>1. /\ \A i \in Job : status'[i] \in Waiting => status[i] \in Waiting
        /\ \A i \in Job : status'[i] = "running" =>
              status[i] = "running" \/ (status[i] = "queued" /\ i = j /\ ~UploadBlocked(j))
    <3>1. CASE UNCHANGED status
      BY <3>1
    <3>2. CASE /\ status[j] = "queued" /\ ~UploadBlocked(j)
               /\ status' = [status EXCEPT ![j] = "running"]
      <4>1. \A i \in Job : status'[i] = IF i = j THEN "running" ELSE status[i]
        BY <1>1, <3>2
      <4>2. QED
        BY <3>2, <4>1 DEF Waiting
    <3>3. QED
      BY <1>4, <3>1, <3>2
  <2>2. QED
    BY <1>1, <1>2, <1>3, <2>1 DEF Moves
<1>6. \A i \in Job : Placed(i)' => Placed(i)
  <2>1. \A v \in Worker : wjob'[v] \in {wjob[v], j, NoJob}
    BY <1>1, <1>2 DEF Consider
  <2>2. QED
    BY <1>2, <2>1 DEF Placed
<1>7. \A i \in Job : Needed(i)' => Needed(i)
  BY <1>1, <1>2, <1>3, <1>4, <1>6 DEF Needed, Awaited
<1>8. QED
  BY <1>3, <1>5, <1>7 DEF Keeps

\* The run of a job is over: the job that waited for it may get its place.
LEMMA FinishMoves ==
    ASSUME TypeInv, TypeInv', QueueInv, NEW w \in Worker, NEW rc \in Terminal,
           NEW offline \in BOOLEAN, wpc[w] \in SlotPc, FinishRun(w, rc, offline)
    PROVE  Moves /\ Keeps
<1> DEFINE held == Held(wjob[w])
           h    == MinOf(held)
<1>1. /\ next \in Nat /\ known \subseteq Job /\ status \in [Job -> Status]
      /\ queue \in [Lane -> Seq(Job)] /\ Distinct(queue)
      /\ UNCHANGED <<next, desc, cmd, wjob>> /\ known' = Prune(known, status')
  BY DEF TypeInv, TypeOK, JobTypes, WorkTypes, QueueInv, PlaceInv, FinishRun
<1>2. PICK S \in SUBSET Job :
              /\ \A j \in S : status[j] \notin Terminal /\ status'[j] \in Terminal
              /\ \A j \in Job \ S : status'[j] = status[j]
  BY FinishRunFacts
<1>3. known' \subseteq known /\ \A j \in known : status'[j] \notin Terminal => j \in known'
  BY <1>1, PruneKeeps
<1>4. Moves
  BY <1>1, <1>2, <1>3 DEF Moves, Waiting
<1>5. held \subseteq known /\ held \subseteq Job
  BY <1>1 DEF Held, Dependents
<1>6. In(queue') \subseteq In(queue) \cup held
  <2>1. CASE queue' = queue
    BY <2>1
  <2>2. CASE queue' # queue
    <3>1. held # {} /\ queue' = [queue EXCEPT ![LaneOfDesc(desc[h])] = Append(@, h)]
      BY <2>2 DEF FinishRun, Place
    <3>2. h \in held /\ h \in Job /\ status[h] = "queued" /\ desc[h].dep = wjob[w]
      <4>1. h \in held
        BY <1>5, <3>1, MinInSet
      <4>2. QED
        BY <1>5, <4>1 DEF Held, Dependents
    <3>3. wjob[w] \in Job /\ status[wjob[w]] = "running"
      BY DEF TypeInv, TaskInv, SlotPc, QueueInv, StatusInv
    <3>4. h \notin In(queue)
      BY <3>2, <3>3 DEF QueueInv, ChainInv, Placed, Past
    <3>5. LaneOfDesc(desc[h]) \in Lane
      BY LaneTyped
    <3> HIDE DEF h, held
    <3>6. In(queue') = In(queue) \cup {h}
      BY <1>1, <3>1, <3>2, <3>4, <3>5, InAppend
    <3>7. QED
      BY <3>2, <3>6
  <2>3. QED
    BY <2>1, <2>2
<1> HIDE DEF held, h
<1>7. \A j : Placed(j)' => Placed(j) \/ j \in known
  BY <1>1, <1>5, <1>6 DEF Placed
<1>8. \A j \in Job : Needed(j)' => status'[j] = status[j] /\ status'[j] \notin Terminal
  BY <1>2 DEF Needed
<1>9. \A j \in Job : Needed(j)' => Needed(j) \/ j \in known
  BY <1>1, <1>7, <1>8 DEF Needed, Awaited
<1>10. Keeps
  BY <1>3, <1>8, <1>9 DEF Keeps
<1>11. QED
  BY <1>4, <1>10

\* No other step of a worker, a save or a revert moves a job.
LEMMA StillMoves ==
    ASSUME TypeInv, TypeInv', QueueInv,
           \/ \E w \in Worker : Begun(w) \/ Spawn(w) \/ ExitToEpilogue(w) \/ Ended(w)
           \/ SaveStep \/ RevertStep \/ UNCHANGED vars
    PROVE  Moves /\ Keeps
<1>1. UNCHANGED <<next, known, desc, status, cmd, queue>>
  <2>1. CASE \E w \in Worker : Begun(w) \/ Spawn(w) \/ ExitToEpilogue(w) \/ Ended(w)
    BY <2>1 DEF Begun, Spawn, ExitToEpilogue, Ended, jobVars
  <2>2. CASE SaveStep \/ RevertStep \/ UNCHANGED vars
    BY <2>2 DEF SaveStep, SaveBegin, SaveJob, SaveWrite, RevertStep, RevertStart,
       RevertDone, vars, jobVars, workVars
  <2>3. QED
    BY <2>1, <2>2
<1>2. \A w \in Worker : wjob'[w] = wjob[w] \/ wjob'[w] = NoJob
  <2>1. CASE \E w \in Worker : Begun(w) \/ Spawn(w) \/ ExitToEpilogue(w) \/ Ended(w)
    BY <2>1 DEF Begun, Spawn, ExitToEpilogue, Ended, TypeInv, TypeOK, WorkTypes
  <2>2. CASE SaveStep \/ RevertStep \/ UNCHANGED vars
    BY <2>2 DEF SaveStep, SaveBegin, SaveJob, SaveWrite, RevertStep, RevertStart,
       RevertDone, vars, workVars
  <2>3. QED
    BY <2>1, <2>2
<1>3. \A j \in Job : Needed(j)' => Needed(j)
  BY <1>1, <1>2 DEF Needed, Awaited, Placed
<1>4. next \in Nat
  BY DEF TypeInv, TypeOK, JobTypes
<1>5. QED
  BY <1>1, <1>3, <1>4 DEF Moves, Keeps

\* The steps of a call, sorted by what they do.
LEMMA CallKinds ==
    ASSUME TypeInv, QueueInv, NEW c \in Client, Request(c) \/ ClientStep(c)
    PROVE  \/ \E N \in SUBSET Job : \E r : Creates(c, N, r)
           \/ \E r : CallMoves(c, r)
<1>1. CASE Request(c)
  <2>1. \/ Creation(c)
        \/ \E g, n \in Config : Rename(c, g, n)
        \/ \E j \in Job : Cancel(c, j)
        \/ \E st \in ClearStatuses : Clear(c, st)
    BY <1>1 DEF Request, Creation, Compile, Upload, Clean, AnalyzeMemory
  <2>2. QED
    BY <2>1, CreationCreates, RequestMoves
<1>2. CASE RenameLock(c)
  <2>1. fsLock = NoOne /\ NoOne # c /\ (fsLock' = c \/ fsLock' = fsLock)
    BY <1>2, TaskAssumption DEF RenameLock, Proc
  <2>2. QED
    BY <1>2, <2>1, CreationCreates, RequestMoves DEF Creation
<1>3. CASE ClientStep(c) /\ ~RenameLock(c)
  BY <1>3, SweepMoves, SavedMoves, StageMoves DEF ClientStep
<1>4. QED
  BY <1>1, <1>2, <1>3

LEMMA NextMoves ==
    ASSUME TypeInv, TypeInv', QueueInv, [Next]_vars, ~Restart
    PROVE  Moves /\ (LiveKept => Keeps)
<1>1. CASE \E c \in Client : Request(c) \/ ClientStep(c)
  <2>1. PICK c \in Client : Request(c) \/ ClientStep(c)
    BY <1>1
  <2>2. CASE \E N \in SUBSET Job : \E r : Creates(c, N, r)
    BY <2>2, CreationMoves
  <2>3. CASE \E r : CallMoves(c, r)
    BY <2>3, CallsMove
  <2>4. QED
    BY <2>1, <2>2, <2>3, CallKinds
<1>2. CASE \E w \in Worker : WorkerStep(w)
  <2>1. PICK w \in Worker : WorkerStep(w)
    BY <1>2
  <2>2. CASE Take(w) \/ Recheck(w)
    BY <2>2, TakeMoves
  <2>3. CASE \/ PrepFails(w) \/ EpilogueFails(w) \/ EpilogueDone(w)
             \/ \E ok, offline \in BOOLEAN : Exit(w, ok, offline)
    BY <2>3, FinishSteps, FinishMoves
  <2>4. CASE Begun(w) \/ Spawn(w) \/ ExitToEpilogue(w) \/ Ended(w)
    BY <2>4, StillMoves
  <2>5. QED
    BY <2>1, <2>2, <2>3, <2>4 DEF WorkerStep
<1>3. CASE SaveStep \/ RevertStep \/ UNCHANGED vars
  BY <1>3, StillMoves
<1>4. QED
  BY <1>1, <1>2, <1>3 DEF Next

-----------------------------------------------------------------------------
(* A wipe spares a flash *)

LEMMA NextKnownInv ==
    ASSUME LiveKept, TypeInv, TypeInv', QueueInv, KnownInv, [Next]_vars
    PROVE  KnownInv'
<1>1. CASE ~Restart
  BY <1>1, NextMoves, KeepsKnown
<1>2. CASE Restart
  <2>1. /\ status' = [j \in Job |-> RestoredStatus(j)] /\ known' = {j \in Job : OnDisk(j)}
    BY <1>2 DEF Restart
  <2>2. \A j \in Job : disk[j].status \in Status
    BY DEF TypeInv, TypeOK, SaveTypes, DiskRec
  <2>3. \A j \in Job : status'[j] \in Waiting => j \in known'
    BY <2>1, <2>2 DEF RestoredStatus, Orphaned, Requeued, OnDisk, Waiting
  <2>4. QED
    BY <2>3 DEF KnownInv, Needed, Waiting
<1>3. QED
  BY <1>1, <1>2

\* Only calls create jobs.
LEMMA KeepKnown ==
    ASSUME TypeInv, QueueInv,
           (\E w \in Worker : WorkerStep(w)) \/ SaveStep \/ RevertStep \/ UNCHANGED vars
    PROVE  known' \subseteq known
<1>1. CASE \E w \in Worker : WorkerStep(w)
  <2>1. PICK w \in Worker : WorkerStep(w)
    BY <1>1
  <2>2. CASE \/ PrepFails(w) \/ EpilogueFails(w) \/ EpilogueDone(w)
             \/ \E ok, offline \in BOOLEAN : Exit(w, ok, offline)
    BY <2>2, FinishSteps, PruneKeeps DEF FinishRun
  <2>3. CASE \/ Take(w) \/ Recheck(w) \/ Begun(w) \/ Spawn(w) \/ ExitToEpilogue(w) \/ Ended(w)
    BY <2>3 DEF Take, Recheck, Begun, Spawn, ExitToEpilogue, Ended, jobVars
  <2>4. QED
    BY <2>1, <2>2, <2>3 DEF WorkerStep
<1>2. CASE SaveStep \/ RevertStep \/ UNCHANGED vars
  BY <1>2 DEF SaveStep, SaveBegin, SaveJob, SaveWrite, RevertStep, RevertStart, RevertDone,
     vars, jobVars
<1>3. QED
  BY <1>1, <1>2

LEMMA NextWipeInv ==
    ASSUME LiveKept, TypeInv, TypeInv', QueueInv, DeviceInv, KnownInv, WipeInv, [Next]_vars
    PROVE  WipeInv'
<1>1. SUFFICES ASSUME NEW i \in Job, NEW f \in Job,
                      Active(i)', WipesTree(i)', IsFlash(f)', status'[f] = "running",
                      desc'[i].type = "reset" \/ desc'[i].cfg = FlashOf(f)'
               PROVE  BeingStopped(f)'
  BY DEF WipeInv
<1>2. CASE Restart
  <2>1. status'[f] = RestoredStatus(f)
    BY <1>2 DEF Restart
  <2>2. QED
    BY <1>1, <2>1 DEF RestoredStatus, Requeued
<1>3. CASE ~Restart
  <2>1. Moves /\ KnownInv' /\ Follows
    BY <1>3, NextMoves, NextKnownInv, NextFollows
  <2>2. Active(f)'
    BY <1>1, <2>1 DEF KnownInv, Needed, Active
  <2>3. SUFFICES ASSUME ~BeingStopped(f) PROVE BeingStopped(f)'
    BY <2>1, <2>2 DEF Follows
  <2>4. /\ next \in Nat /\ i \in Nat /\ f \in Nat /\ f < next
        /\ desc'[f] = desc[f] /\ Active(f)
        /\ IsFlash(f) /\ FlashOf(f)' = FlashOf(f)
    <3>1. next \in Nat /\ i \in Nat /\ f \in Nat
      BY DEF TypeInv, TypeOK, JobTypes
    <3>2. f < next
      BY <1>1, <2>1, <3>1 DEF Moves, QueueInv, FreshInv
    <3>3. QED
      BY <1>1, <2>1, <2>2, <3>1, <3>2 DEF Moves, Active, Waiting, IsFlash, IsTail, FlashOf
  <2>5. CASE i < next
    <3>1. Active(i) /\ desc'[i] = desc[i] /\ WipesTree(i)
      BY <1>1, <2>1, <2>4, <2>5 DEF Moves, Active, Waiting, WipesTree
    <3>2. UploadBlocked(f)
      BY <1>1, <2>4, <3>1 DEF UploadBlocked, Active
    <3>3. status[f] = "running"
      BY <1>1, <2>1, <3>2 DEF Moves
    <3>4. QED
      BY <1>1, <2>3, <2>4, <3>1, <3>3 DEF WipeInv
  <2>6. CASE i >= next
    <3>1. i \in known' /\ i \notin known
      BY <1>1, <2>6 DEF Active, QueueInv, FreshInv
    <3>2. ~(known' \subseteq known)
      BY <3>1
    <3>3. PICK c \in Client : Request(c) \/ ClientStep(c)
      BY <1>3, <3>2, KeepKnown DEF Next
    <3>4. PICK N \in SUBSET Job : \E r : Creates(c, N, r)
      BY <3>2, <3>3, CallKinds DEF CallMoves
    <3>5. PICK r : Creates(c, N, r)
      BY <3>4
    <3>6. i \in N /\ f \in known
      BY <2>4, <3>1, <3>5 DEF Creates, Active
    <3>7. f \in r.todo
      BY <1>1, <2>4, <3>5, <3>6 DEF Creates, WipesTree
    <3>8. cmd'[c].todo = r.todo
      BY <3>5 DEF Creates, TypeInv, TypeOK, TaskTypes
    <3>9. QED
      BY <3>7, <3>8 DEF BeingStopped
  <2>7. QED
    BY <2>4, <2>5, <2>6
<1>4. QED
  BY <1>2, <1>3

\* Whatever calls, cancels, lanes and restarts do, a flash never has a live process beside
\* the clean or reset that wipes its build tree unless it is flagged to stop or about to
\* be: upload_blocked parks a flash that would start, and the sweep of the call that
\* created the wipe has the one that ran (check_rename_lock refuses a clean of a name that
\* a rename is flashing).
THEOREM WipeSparesFlashHolds == WholeSnapshots /\ LiveKept => (Spec => []WipeSparesFlash)
<1>1. SUFFICES ASSUME WholeSnapshots, LiveKept PROVE Spec => []WipeSparesFlash
  OBVIOUS
<1>2. Spec => [](TypeInv /\ QueueInv)
  BY <1>1, InvHolds
<1> DEFINE Inv == DeviceInv /\ KnownInv /\ WipeInv
<1>3. Init => Inv
  BY InitDevices DEF Init, KnownInv, Needed, WipeInv, Active
<1>4. TypeInv /\ QueueInv /\ (TypeInv /\ QueueInv)' /\ Inv /\ [Next]_vars => Inv'
  BY <1>1, NextDevices, NextKnownInv, NextWipeInv
<1>5. TypeInv /\ QueueInv /\ Inv => WipeSparesFlash
  <2>1. SUFFICES ASSUME TypeInv, QueueInv, Inv, NEW v \in Worker, NEW w \in Worker,
                        wpc[v] = "proc", wpc[w] = "proc", WipesTree(wjob[v]), IsFlash(wjob[w]),
                        desc[wjob[v]].type = "reset" \/ desc[wjob[v]].cfg = FlashOf(wjob[w])
                 PROVE  BeingStopped(wjob[w])
    BY DEF WipeSparesFlash
  <2>2. /\ wjob[v] \in Job /\ wjob[w] \in Job
        /\ status[wjob[v]] = "running" /\ status[wjob[w]] = "running"
    BY <2>1 DEF TypeInv, TaskInv, QueueInv, StatusInv, SlotPc
  <2>3. Active(wjob[v])
    BY <2>1, <2>2 DEF KnownInv, Needed, Active
  <2>4. QED
    BY <2>1, <2>2, <2>3 DEF WipeInv
<1>6. QED
  BY <1>2, <1>3, <1>4, <1>5, PTL DEF Spec

-----------------------------------------------------------------------------
(* What was accepted or cancelled is so on disk *)

\* The steps that save nothing: the lock stays, or its owner gives it back after the write,
\* and only the call that gives it back acknowledges or tells what it saved.
LEMMA OffTheDisk ==
    ASSUME TypeInv, TypeInv', QueueInv, LockInv, [Next]_vars, ~Restart, ~SaveStep
    PROVE  /\ UNCHANGED <<left, blob, disk>>
           /\ UNCHANGED <<holder, saved>> \/ (saved /\ holder' = NoOne /\ saved' = FALSE)
           /\ \A b \in Client : holder' = b => cmd'[b] = cmd[b]
           /\ \A j \in acked' : j \in acked \/ \E c \in Client :
                 holder = c /\ saved /\ cmd[c].pc = "save" /\ j \in cmd[c].own
           /\ \A j \in told' : j \in told \/ \E c \in Client :
                 holder = c /\ saved /\ cmd[c].pc = "save1" /\ j = cmd[c].job
<1>0. NoOne \notin Client
  BY TaskAssumption DEF Proc
<1>1. CASE \E c \in Client : Request(c) \/ ClientStep(c)
  <2>1. PICK c \in Client : Request(c) \/ ClientStep(c)
    BY <1>1
  <2>2. CASE \E N \in SUBSET Job : \E r : Creates(c, N, r)
    <3>1. PICK N \in SUBSET Job : \E r : Creates(c, N, r)
      BY <2>2
    <3>2. PICK r : Creates(c, N, r)
      BY <3>1
    <3>3. UNCHANGED <<holder, left, blob, saved, disk, acked, told>>
      BY <3>2 DEF Creates, saveVars, histVars
    <3>4. \A b \in Client : b # c => cmd'[b] = cmd[b]
      BY <3>2 DEF Creates, TypeInv, TypeOK, TaskTypes
    <3>5. holder # c
      BY <3>2 DEF Creates, LockInv, SavePc
    <3>6. QED
      BY <3>3, <3>4, <3>5
  <2>3. CASE \E r : CallMoves(c, r)
    <3>1. PICK r : CallMoves(c, r)
      BY <2>3
    <3>2. \A b \in Client : b # c => cmd'[b] = cmd[b]
      BY <3>1 DEF CallMoves, TypeInv, TypeOK, TaskTypes
    <3>3. holder' # c
      BY <1>0, <3>1 DEF CallMoves, LockInv
    <3>4. /\ UNCHANGED <<left, blob, disk>>
          /\ UNCHANGED <<holder, saved>> \/ (saved /\ holder' = NoOne /\ saved' = FALSE)
          /\ cmd[c].pc \in SavePc => holder = c /\ saved
          /\ acked' = acked \/ (cmd[c].pc = "save" /\ acked' = acked \cup cmd[c].own)
          /\ told' = told \/ (cmd[c].pc = "save1" /\ told' = told \cup {cmd[c].job})
      BY <3>1 DEF CallMoves
    <3>5. QED
      BY <3>2, <3>3, <3>4 DEF SavePc
  <2>4. QED
    BY <2>1, <2>2, <2>3, CallKinds
<1>2. CASE (\E w \in Worker : WorkerStep(w)) \/ RevertStep \/ UNCHANGED vars
  <2>1. UNCHANGED <<left, blob, disk, cmd, acked, told>>
    <3>1. CASE \E w \in Worker : WorkerStep(w)
      BY <3>1 DEF WorkerStep, Take, Recheck, Begun, Spawn, PrepFails, Exit, ExitToEpilogue,
         EpilogueDone, EpilogueFails, Ended, FinishRun, SaveReturns, saveVars, histVars
    <3>2. CASE RevertStep \/ UNCHANGED vars
      BY <3>2 DEF RevertStep, RevertStart, RevertDone, vars, saveVars, histVars
    <3>3. QED
      BY <1>2, <3>1, <3>2
  <2>2. UNCHANGED <<holder, saved>> \/ (saved /\ holder' = NoOne /\ saved' = FALSE)
    <3>1. CASE \E w \in Worker : WorkerStep(w)
      BY <3>1 DEF WorkerStep, Take, Recheck, Begun, Spawn, PrepFails, Exit, ExitToEpilogue,
         EpilogueDone, EpilogueFails, Ended, FinishRun, SaveReturns, saveVars
    <3>2. CASE RevertStep \/ UNCHANGED vars
      BY <3>2 DEF RevertStep, RevertStart, RevertDone, vars, saveVars
    <3>3. QED
      BY <1>2, <3>1, <3>2
  <2>3. QED
    BY <2>1, <2>2
<1>3. QED
  BY <1>1, <1>2 DEF Next

Durable == LockInv /\ AckedInv /\ ToldInv

LEMMA NextOffDisk ==
    ASSUME TypeInv, TypeInv', QueueInv, DeviceInv, Durable, [Next]_vars, ~Restart, ~SaveStep
    PROVE  Durable'
<1>0. /\ NoOne \notin Client /\ next \in Nat /\ acked \subseteq Job /\ told \subseteq Job
      /\ \A c \in Client : cmd[c].own \subseteq Job /\ (cmd[c].pc = "save1" => cmd[c].job \in Job)
  BY TaskAssumption DEF Proc, TypeInv, TypeOK, JobTypes, HistTypes, TaskTypes, Cmd, TaskInv, CmdInv
<1>1. /\ UNCHANGED <<left, blob, disk>>
      /\ UNCHANGED <<holder, saved>> \/ (saved /\ holder' = NoOne /\ saved' = FALSE)
      /\ \A b \in Client : holder' = b => cmd'[b] = cmd[b]
      /\ \A j \in acked' : j \in acked \/ \E c \in Client :
            holder = c /\ saved /\ cmd[c].pc = "save" /\ j \in cmd[c].own
      /\ \A j \in told' : j \in told \/ \E c \in Client :
            holder = c /\ saved /\ cmd[c].pc = "save1" /\ j = cmd[c].job
  BY OffTheDisk DEF Durable
<1>2. Moves
  BY NextMoves
<1>3. LockInv'
  <2>1. \A c \in Client : holder' = c => cmd'[c].pc \in SavePc
    BY <1>0, <1>1 DEF Durable, LockInv
  <2>2. /\ saved' => holder' # NoOne
        /\ holder' = NoOne \/ saved' => blob' = [j \in Job |-> Absent] /\ left' = {}
    BY <1>1 DEF Durable, LockInv
  <2>3. QED
    BY <2>1, <2>2 DEF LockInv
<1>4. \A j : /\ Requeued(j)' = Requeued(j) /\ WillBe(j)' = WillBe(j)
             /\ Live(blob'[j].status) = Live(blob[j].status)
  BY <1>1 DEF Requeued, WillBe
<1>5. \A c \in Client : \A j \in cmd[c].own : j < next
  BY <1>0 DEF QueueInv, FreshInv
<1>6. \A j \in Job : j < next =>
         /\ Active(j)' /\ desc'[j].type # "analyze" => Active(j) /\ desc[j].type # "analyze"
         /\ Live(status'[j]) => Live(status[j])
         /\ j < next'
  <2>1. next' \in Nat
    BY DEF TypeInv, TypeOK, JobTypes
  <2>2. QED
    BY <1>0, <1>2, <2>1 DEF Moves, Active, Live, Waiting
<1>7. \A j \in acked : j < next
  BY <1>0 DEF Durable, AckedInv
<1>8. AckedInv'
  <2>1. \A j \in acked' : j \in Job /\ j < next
    BY <1>0, <1>1, <1>5, <1>7
  <2>2. ASSUME NEW j \in acked', Active(j)', desc'[j].type # "analyze"
        PROVE  Requeued(j)' /\ (holder' # NoOne /\ ~saved' => WillBe(j)')
    <3>1. j \in Job /\ Active(j) /\ desc[j].type # "analyze"
      BY <1>6, <2>1, <2>2
    <3>2. CASE j \in acked
      <4>1. Requeued(j) /\ (holder # NoOne /\ ~saved => WillBe(j))
        BY <3>1, <3>2 DEF Durable, AckedInv
      <4>2. QED
        BY <1>1, <1>4, <4>1
    <3>3. CASE j \notin acked
      <4>1. PICK c \in Client : holder = c /\ saved /\ cmd[c].pc = "save" /\ j \in cmd[c].own
        BY <1>1, <2>2, <3>3
      <4>2. Requeued(j)
        BY <3>1, <4>1 DEF Durable, AckedInv
      <4>3. holder' = NoOne \/ saved'
        BY <1>1, <4>1
      <4>4. QED
        BY <1>4, <4>2, <4>3
    <3>4. QED
      BY <3>2, <3>3
  <2>3. ASSUME NEW c \in Client, holder' = c, cmd'[c].pc = "save", NEW j \in cmd'[c].own,
               Active(j)', desc'[j].type # "analyze"
        PROVE  IF saved' THEN Requeued(j)' ELSE WillBe(j)'
    <3>1. cmd'[c] = cmd[c] /\ holder = c /\ saved' = saved
      BY <1>0, <1>1, <2>3
    <3>2. j \in Job /\ Active(j) /\ desc[j].type # "analyze"
      BY <1>0, <1>5, <1>6, <2>3, <3>1
    <3>3. IF saved THEN Requeued(j) ELSE WillBe(j)
      BY <2>3, <3>1, <3>2 DEF Durable, AckedInv
    <3>4. QED
      BY <1>4, <3>1, <3>3
  <2>4. \A j \in Job : j >= next' => j \notin acked'
    <3>1. next' \in Nat
      BY DEF TypeInv, TypeOK, JobTypes
    <3>2. QED
      BY <1>0, <1>6, <2>1, <3>1
  <2>5. QED
    BY <2>2, <2>3, <2>4 DEF AckedInv
<1>9. ToldInv'
  <2>1. ASSUME NEW j \in told'
        PROVE  /\ j \in Job /\ j < next /\ ~Live(status[j]) /\ ~Requeued(j)
               /\ ~Live(blob[j].status)
    <3>1. CASE j \in told
      BY <1>0, <3>1 DEF Durable, ToldInv
    <3>2. CASE j \notin told
      <4>1. PICK c \in Client : holder = c /\ saved /\ cmd[c].pc = "save1" /\ j = cmd[c].job
        BY <1>1, <2>1, <3>2
      <4>2. j \in Job /\ ~Requeued(j)
        BY <1>0, <4>1 DEF Durable, ToldInv
      <4>3. status[j] \in Terminal
        BY <4>1 DEF DeviceInv, CallTracks
      <4>4. j < next
        BY <1>0, <4>2, <4>3 DEF QueueInv, FreshInv
      <4>5. blob[j] = Absent
        BY <4>1, <4>2 DEF Durable, LockInv
      <4>6. QED
        BY <4>2, <4>3, <4>4, <4>5 DEF Live, Absent
    <3>3. QED
      BY <3>1, <3>2
  <2>2. \A j \in told' : /\ j < next' /\ ~Live(status'[j]) /\ ~Requeued(j)'
                         /\ ~Live(blob'[j].status)
    BY <1>4, <1>6, <2>1
  <2>3. ASSUME NEW c \in Client, holder' = c, cmd'[c].pc = "save1"
        PROVE  (IF saved THEN ~Requeued(cmd[c].job) ELSE ~Live(blob[cmd[c].job].status))'
    <3>1. cmd'[c] = cmd[c] /\ holder = c /\ saved' = saved
      BY <1>0, <1>1, <2>3
    <3>2. IF saved THEN ~Requeued(cmd[c].job) ELSE ~Live(blob[cmd[c].job].status)
      BY <2>3, <3>1 DEF Durable, ToldInv
    <3>3. QED
      BY <1>1, <3>1, <3>2 DEF Requeued, Live
  <2>4. QED
    BY <2>2, <2>3 DEF ToldInv
<1>10. QED
  BY <1>3, <1>8, <1>9 DEF Durable

\* A save: the lock is taken, the jobs are serialised, the file is replaced.
LEMMA SaveDurable ==
    ASSUME TypeInv, TypeInv', QueueInv, DeviceInv, Durable, SaveStep
    PROVE  Durable'
<1>0. /\ NoOne \notin Client /\ next \in Nat /\ acked \subseteq Job /\ told \subseteq Job
      /\ \A c \in Client : cmd[c].own \subseteq Job /\ (cmd[c].pc = "save1" => cmd[c].job \in Job)
      /\ left \subseteq Job /\ known \subseteq Job /\ saved \in BOOLEAN
      /\ blob \in [Job -> DiskRec] /\ Proc \cap {NoOne} = {}
  BY TaskAssumption DEF Proc, TypeInv, TypeOK, JobTypes, HistTypes, TaskTypes, Cmd, TaskInv, CmdInv,
     SaveTypes
<1>1. UNCHANGED <<next, known, desc, status, cmd, acked, told>>
  BY DEF SaveStep, SaveBegin, SaveJob, SaveWrite, jobVars, histVars
<1>2. \A j : Active(j) => j \in known /\ Live(status[j])
  BY DEF Active, Live
<1>3. \A j : Active(j)' <=> Active(j)
  BY <1>1 DEF Active
<1>4. CASE \E p \in Proc : SaveBegin(p)
  <2>1. PICK p \in Proc : SaveBegin(p)
    BY <1>4
  <2>2. /\ holder = NoOne /\ holder' = p /\ p # NoOne /\ UNCHANGED <<blob, saved, disk>>
        /\ left' = {j \in known : desc[j].type # "analyze"}
    BY <1>0, <2>1 DEF SaveBegin
  <2>3. saved = FALSE /\ blob = [j \in Job |-> Absent]
    BY <1>0, <2>2 DEF Durable, LockInv
  <2>4. \A c \in Client : holder' = c => cmd[c].pc \in SavePc
    BY <2>1, <2>2, TaskAssumption DEF SaveBegin, WantsSave, SavePc
  <2>5. LockInv'
    BY <1>1, <2>2, <2>3, <2>4 DEF LockInv
  <2>6. \A j \in Job : Active(j)' /\ desc'[j].type # "analyze" => j \in left'
    BY <1>1, <1>2, <1>3, <2>2
  <2>7. \A j : Requeued(j)' <=> Requeued(j)
    BY <2>2 DEF Requeued
  <2>8. AckedInv'
    <3>1. \A j \in acked : Active(j)' /\ desc'[j].type # "analyze" => Requeued(j)'
      BY <1>1, <1>3, <2>7 DEF Durable, AckedInv
    <3>2. \A j \in Job : Active(j)' /\ desc'[j].type # "analyze" => WillBe(j)'
      BY <2>6 DEF WillBe
    <3>3. QED
      BY <1>0, <1>1, <2>2, <2>3, <3>1, <3>2 DEF Durable, AckedInv
  <2>9. ToldInv'
    <3>1. \A j \in Job : ~Live(blob[j].status)
      BY <2>3 DEF Absent, Live
    <3>2. QED
      BY <1>0, <1>1, <2>2, <2>3, <2>7, <3>1 DEF Durable, ToldInv
  <2>10. QED
    BY <2>5, <2>8, <2>9 DEF Durable
<1>5. CASE SaveJob
  <2>1. PICK i : /\ i \in left /\ left' = left \ {i}
                 /\ blob' = [blob EXCEPT ![i] = [status |-> status[i], released |-> released[i]]]
    <3>1. left # {} /\ left \subseteq Nat
      BY <1>0, <1>5 DEF SaveJob
    <3>2. MinOf(left) \in left
      BY <3>1, MinInSet
    <3>3. QED
      BY <1>5, <3>2 DEF SaveJob
  <2>2. /\ holder # NoOne /\ saved = FALSE /\ UNCHANGED <<holder, saved, disk>>
    BY <1>0, <1>5 DEF SaveJob
  <2>3. /\ \A j \in Job : blob'[j].status = IF j = i THEN status[j] ELSE blob[j].status
        /\ i \in Job
    BY <1>0, <2>1
  <2>4. \A j : Requeued(j)' <=> Requeued(j)
    BY <2>2 DEF Requeued
  <2>5. LockInv'
    BY <1>1, <2>2 DEF Durable, LockInv
  <2>6. \A j \in Job : Active(j) /\ WillBe(j) => WillBe(j)'
    BY <1>2, <2>1, <2>3 DEF WillBe
  <2>7. AckedInv'
    <3>1. \A j \in acked : Active(j) /\ desc[j].type # "analyze" => Requeued(j) /\ WillBe(j)
      BY <2>2 DEF Durable, AckedInv
    <3>2. \A c \in Client : holder = c /\ cmd[c].pc = "save" =>
             \A j \in cmd[c].own : Active(j) /\ desc[j].type # "analyze" => WillBe(j)
      BY <2>2 DEF Durable, AckedInv
    <3>3. \A j \in Job : j >= next => j \notin acked
      BY DEF Durable, AckedInv
    <3>4. /\ \A j \in acked : Active(j)' /\ desc'[j].type # "analyze" => Requeued(j)' /\ WillBe(j)'
          /\ \A c \in Client : holder' = c /\ cmd'[c].pc = "save" =>
                \A j \in cmd'[c].own : Active(j)' /\ desc'[j].type # "analyze" => WillBe(j)'
      BY <1>0, <1>1, <1>3, <2>2, <2>4, <2>6, <3>1, <3>2
    <3>5. QED
      BY <1>1, <2>2, <3>3, <3>4 DEF AckedInv
  <2>8. ToldInv'
    <3>1. \A c \in Client : cmd[c].pc = "save1" => ~Live(status[cmd[c].job])
      BY DEF DeviceInv, CallTracks, Live
    <3>2. \A j \in Job : ~Live(status[j]) /\ ~Live(blob[j].status) => ~Live(blob'[j].status)
      BY <2>3
    <3>3. QED
      BY <1>0, <1>1, <2>2, <2>4, <3>1, <3>2 DEF Durable, ToldInv
  <2>9. QED
    BY <2>5, <2>7, <2>8 DEF Durable
<1>6. CASE SaveWrite
  <2>1. /\ holder # NoOne /\ saved = FALSE /\ saved' = TRUE /\ holder' = holder
        /\ left' = {} /\ blob' = [j \in Job |-> Absent]
        /\ disk' = [j \in Job |-> IF j \in left
                                  THEN [status |-> status[j], released |-> released[j]]
                                  ELSE blob[j]]
    BY <1>0, <1>6 DEF SaveWrite
  <2>2. \A j \in Job : disk'[j].status = IF j \in left THEN status[j] ELSE blob[j].status
    BY <2>1
  <2>3. LockInv'
    BY <1>1, <2>1 DEF Durable, LockInv
  <2>4. \A j \in Job : Active(j) /\ WillBe(j) => Requeued(j)'
    BY <1>2, <2>2 DEF WillBe, Requeued, Live
  <2>5. \A j \in Job : ~Live(status[j]) /\ ~Live(blob[j].status) => ~Requeued(j)'
    BY <2>2 DEF Requeued, Live
  <2>6. AckedInv'
    <3>1. \A j \in acked : Active(j) /\ desc[j].type # "analyze" => WillBe(j)
      BY <2>1 DEF Durable, AckedInv
    <3>2. \A c \in Client : holder = c /\ cmd[c].pc = "save" =>
             \A j \in cmd[c].own : Active(j) /\ desc[j].type # "analyze" => WillBe(j)
      BY <2>1 DEF Durable, AckedInv
    <3>3. \A j \in Job : j >= next => j \notin acked
      BY DEF Durable, AckedInv
    <3>4. /\ \A j \in acked : Active(j)' /\ desc'[j].type # "analyze" => Requeued(j)'
          /\ \A c \in Client : holder' = c /\ cmd'[c].pc = "save" =>
                \A j \in cmd'[c].own : Active(j)' /\ desc'[j].type # "analyze" => Requeued(j)'
      BY <1>0, <1>1, <1>3, <2>1, <2>4, <3>1, <3>2
    <3>5. QED
      BY <1>1, <2>1, <3>3, <3>4 DEF AckedInv
  <2>7. ToldInv'
    <3>1. \A c \in Client : cmd[c].pc = "save1" => ~Live(status[cmd[c].job])
      BY DEF DeviceInv, CallTracks, Live
    <3>2. \A j \in Job : ~Live(blob'[j].status)
      BY <2>1 DEF Absent, Live
    <3>3. /\ \A j \in told : j < next /\ ~Live(status[j]) /\ ~Requeued(j)'
          /\ \A c \in Client : holder = c /\ cmd[c].pc = "save1" =>
                ~Live(blob[cmd[c].job].status)
      BY <1>0, <2>1, <2>5 DEF Durable, ToldInv
    <3>4. \A c \in Client : holder' = c /\ cmd'[c].pc = "save1" => ~Requeued(cmd[c].job)'
      BY <1>0, <1>1, <2>1, <2>2, <3>1, <3>3 DEF Requeued, Live
    <3>5. QED
      BY <1>0, <1>1, <2>1, <3>2, <3>3, <3>4 DEF ToldInv, Requeued
  <2>8. QED
    BY <2>3, <2>6, <2>7 DEF Durable
<1>7. QED
  BY <1>4, <1>5, <1>6 DEF SaveStep

\* load_jobs brings back what was on disk, and no save is in progress.
LEMMA RestartDurable ==
    ASSUME TypeInv, TypeInv', QueueInv, Durable, Restart
    PROVE  Durable'
<1>1. /\ status' = [j \in Job |-> RestoredStatus(j)] /\ UNCHANGED <<next, disk, acked, told>>
      /\ holder' = NoOne /\ left' = {} /\ blob' = [j \in Job |-> Absent] /\ saved' = FALSE
  BY DEF Restart
<1>2. NoOne \notin Client /\ acked \subseteq Job /\ told \subseteq Job /\ known' \subseteq Job
  BY TaskAssumption DEF Proc, TypeInv, TypeOK, HistTypes, JobTypes
<1>3. \A j \in Job : Live(status'[j]) <=> Requeued(j) /\ ~Orphaned(j)
  BY <1>1 DEF RestoredStatus, Requeued, Live
<1>4. \A j \in Job : ~Live(blob'[j].status)
  BY <1>1 DEF Absent, Live
<1>5. \A j : Requeued(j)' <=> Requeued(j)
  BY <1>1 DEF Requeued
<1>6. LockInv'
  BY <1>1, <1>2 DEF LockInv
<1>7. AckedInv'
  <2>1. \A j \in Job : Active(j)' => Requeued(j)'
    BY <1>3, <1>5 DEF Active, Live
  <2>2. \A j \in Job : j >= next' => j \notin acked'
    BY <1>1 DEF Durable, AckedInv
  <2>3. QED
    BY <1>1, <1>2, <2>1, <2>2 DEF AckedInv
<1>8. ToldInv'
  BY <1>1, <1>2, <1>3, <1>4, <1>5 DEF Durable, ToldInv
<1>9. QED
  BY <1>6, <1>7, <1>8 DEF Durable

LEMMA DurableHolds == WholeSnapshots => (Spec => []Durable)
<1>1. SUFFICES ASSUME WholeSnapshots PROVE Spec => []Durable
  OBVIOUS
<1>2. Spec => [](TypeInv /\ QueueInv)
  BY <1>1, InvHolds
<1> DEFINE Inv == DeviceInv /\ Durable
<1>3. Init => Inv
  <2>1. Init => Durable
    BY TaskAssumption DEF Init, Durable, LockInv, AckedInv, ToldInv, Proc
  <2>2. QED
    BY <2>1, InitDevices
<1>4. TypeInv /\ QueueInv /\ (TypeInv /\ QueueInv)' /\ Inv /\ [Next]_vars => Inv'
  BY NextDevices, NextOffDisk, SaveDurable, RestartDurable
<1>5. QED
  BY <1>2, <1>3, <1>4, PTL DEF Spec

\* A submission that returned survives a crash: the snapshot that was written before the
\* call returned has the job, and so has every later one while the job is active, whatever
\* else is saved, cancelled or pruned meanwhile (persist_jobs under one lock).
THEOREM AckedIsDurableHolds == WholeSnapshots => (Spec => []AckedIsDurable)
<1>1. Durable => AckedIsDurable
  BY DEF Durable, AckedInv, AckedIsDurable
<1>2. QED
  BY <1>1, DurableHolds, PTL

\* Once the caller and the event bus were told of a cancel, no restart runs the job again:
\* jobs.cancel saves before it fires JOB_CANCELLED, and no later snapshot brings it back.
THEOREM ToldIsDurableHolds == WholeSnapshots => (Spec => []ToldIsDurable)
<1>1. Durable => ToldIsDurable
  BY DEF Durable, ToldInv, ToldIsDurable
<1>2. QED
  BY <1>1, DurableHolds, PTL

-----------------------------------------------------------------------------
(* A rename loses no YAML file *)

Undone == {"failed", "cancelled"}
Saving == {"save1", "save2"}

\* What happens to a call that stages no file and waits for no file lock in this step.
CallKeeps(r, s) ==
    /\ s.pc = "fs_lock" => s = r
    /\ s.pc \in StagePc => s.then = "stage_save"
    /\ "stage_save" \in {r.then, s.then} =>
          s.then = r.then /\ s.own = r.own /\ s.new = r.new /\ s.pc \in SweepPc \cup StagePc
    /\ r.pc \in Saving => (s.pc \in Saving /\ s.job = r.job) \/ (IsTail(r.job) => r.job \in reverts')
    /\ s.pc \in Saving => (r.pc \in Saving /\ s.job = r.job) \/ status'[s.job] = "cancelled"

\* What the steps do to chains that are there, the lock of the files and the files, except
\* those that stage a chain or undo one.
ChainsGoOn ==
    /\ \A j \in Job : j >= next => ~(desc'[j].type = "rename" /\ desc'[j].dep # NoJob)
    /\ \A t \in Job : IsTail(t) /\ Active(t) =>
          \/ Active(t)' \/ status'[t] = "completed" \/ t \in reverts'
          \/ \E c \in Client : cmd'[c].pc \in Saving /\ cmd'[c].job = t
    /\ reverts \subseteq reverts'
    /\ \A t \in reverts' \ reverts : t \in Job /\ IsTail(t) /\ status'[t] \in Undone
    /\ \A c \in Client : CallKeeps(cmd[c], cmd'[c])
    /\ fsLock' = fsLock \/ (fsLock' = NoOne /\ \A c \in Client : cmd'[c].then # "stage_save")
    /\ files' \subseteq files
    /\ \A t \in Job : IsTail(t) /\ Active(t)' /\ desc[t].new \in files => desc[t].new \in files'

\* What is over stays as it ended.
OverStays == \A j \in Job : status[j] \in Terminal => status'[j] = status[j]

LEMMA ChainsKept ==
    ASSUME TypeInv, TypeInv', QueueInv, RenameInv, FilesInv, Moves, OverStays, ChainsGoOn
    PROVE  RenameInv' /\ FilesInv'
<1>1. /\ \A t \in Job : IsTail(t) => t < next
      /\ \A t \in Job : t < next => desc'[t] = desc[t] /\ (status'[t] \in Waiting => status[t] \in Waiting)
      /\ \A t \in Job : t < next \/ t >= next
      /\ next' >= next /\ next' \in Int /\ next \in Int
  BY BoundsAssumption DEF RenameInv, Moves, TypeInv, TypeOK, JobTypes
<1>2. \A t \in Job : /\ IsTail(t)' <=> IsTail(t)
                     /\ IsTail(t) => t < next' /\ desc'[t] = desc[t]
                     /\ IsTail(t) /\ Active(t)' => Active(t)
  <2>1. \A t \in Job : IsTail(t)' => t < next
    BY <1>1 DEF ChainsGoOn, IsTail
  <2>2. \A t \in Job : t < next /\ Active(t)' => Active(t)
    BY <1>1 DEF Moves, Active, Waiting
  <2>3. QED
    BY <1>1, <2>1, <2>2 DEF IsTail
<1>3. \A t \in Job : IsTail(t) => /\ Undoes(t) => Undoes(t)'
                                  /\ Active(t) => Active(t)' \/ Undoes(t)'
  <2>1. ASSUME NEW t \in Job, IsTail(t), NEW c \in Client, cmd[c].pc \in Saving, cmd[c].job = t
        PROVE  t \in reverts' \/ (cmd'[c].pc \in Saving /\ cmd'[c].job = t)
    BY <2>1 DEF ChainsGoOn, CallKeeps
  <2>2. ASSUME NEW t \in Job, status[t] = "completed"
        PROVE  status'[t] = "completed"
    BY <2>2 DEF OverStays
  <2>3. reverts \subseteq reverts'
    BY DEF ChainsGoOn
  <2>4. \A t \in Job : IsTail(t) /\ Undoes(t) => Undoes(t)'
    BY <2>1, <2>2, <2>3 DEF Undoes, Saving
  <2>5. \A t \in Job : IsTail(t) /\ Active(t) => Active(t)' \/ Undoes(t)'
    BY DEF ChainsGoOn, Undoes, Saving
  <2>6. QED
    BY <2>4, <2>5
<1>4. \A c \in Client : cmd[c].own \subseteq Job /\ cmd'[c].own \subseteq Job
  BY DEF TypeInv, TypeOK, TaskTypes, Cmd
<1>5. \A c \in Client : /\ cmd'[c].then = "stage_save" <=> cmd[c].then = "stage_save"
                        /\ cmd'[c].then = "stage_save" =>
                              cmd'[c].own = cmd[c].own /\ cmd'[c].new = cmd[c].new
  BY DEF ChainsGoOn, CallKeeps
<1>6. RenameInv'
  <2>1. \A c \in Client : cmd'[c].pc = "fs_lock" =>
          cmd'[c].cfg \in Config /\ cmd'[c].cfg # cmd'[c].new
    BY DEF ChainsGoOn, CallKeeps, RenameInv
  <2>2. \A c \in Client : cmd'[c].pc \in Saving => status'[cmd'[c].job] = "cancelled"
    <3> SUFFICES ASSUME NEW c \in Client, cmd'[c].pc \in Saving, cmd[c].pc \in Saving, cmd'[c].job = cmd[c].job
                 PROVE  status'[cmd'[c].job] = "cancelled"
      BY DEF ChainsGoOn, CallKeeps
    <3>1. status[cmd[c].job] = "cancelled"
      BY DEF RenameInv, Saving
    <3>2. cmd[c].job \in Job
      BY DEF TypeInv, TaskInv, CmdInv, Saving
    <3>3. QED
      BY <3>1, <3>2 DEF OverStays
  <2>3. \A c \in Client : cmd'[c].pc \in StagePc => cmd'[c].then = "stage_save"
    BY DEF ChainsGoOn, CallKeeps
  <2>4. ASSUME NEW c \in Client, cmd'[c].then = "stage_save"
        PROVE  /\ cmd'[c].pc \in SweepPc \cup StagePc /\ fsLock' = c
               /\ \E t \in cmd'[c].own : IsTail(t)'
               /\ \A t \in cmd'[c].own : IsTail(t)' => desc'[t].new = cmd'[c].new
    <3>1. cmd'[c].pc \in SweepPc \cup StagePc
      BY <2>4 DEF ChainsGoOn, CallKeeps
    <3>2. fsLock' = fsLock /\ fsLock = c
      BY <1>5, <2>4 DEF ChainsGoOn, RenameInv
    <3>3. /\ \E t \in cmd[c].own : IsTail(t)
          /\ \A t \in cmd[c].own : IsTail(t) => desc[t].new = cmd[c].new
      BY <1>5, <2>4 DEF RenameInv
    <3>4. QED
      BY <1>2, <1>4, <1>5, <2>4, <3>1, <3>2, <3>3
  <2>5. \A t \in Job : IsTail(t)' => /\ t < next' /\ desc'[t].cfg # desc'[t].new
                                     /\ desc'[t].cfg \in Config /\ desc'[t].new \in Config
    BY <1>2 DEF RenameInv
  <2>6. \A s, t \in Job : /\ IsTail(s)' /\ Active(s)' /\ IsTail(t)' /\ Active(t)'
                          /\ desc'[s].cfg # desc'[t].cfg
                          => Touches(desc'[s]) \cap Touches(desc'[t]) = {}
    BY <1>2 DEF RenameInv
  <2>7. \A t \in reverts' : IsTail(t)' /\ status'[t] \in Undone
    <3> SUFFICES ASSUME NEW t \in reverts' PROVE IsTail(t)' /\ status'[t] \in Undone
      OBVIOUS
    <3>1. CASE t \in reverts
      <4>1. IsTail(t) /\ status[t] \in Undone /\ t \in Job
        BY <3>1 DEF RenameInv, Undone, TypeInv, TypeOK, FileTypes
      <4>2. QED
        BY <1>2, <4>1 DEF OverStays, Undone
    <3>2. CASE t \notin reverts
      BY <1>2, <3>2 DEF ChainsGoOn
    <3>3. QED
      BY <3>1, <3>2
  <2>8. fsLock' \in Job => fsLock' \in reverts' /\ ~TargetOwned(fsLock)'
    <3> SUFFICES ASSUME fsLock' \in Job PROVE fsLock' \in reverts' /\ ~TargetOwned(fsLock)'
      OBVIOUS
    <3>1. fsLock' = fsLock /\ fsLock \in reverts /\ ~TargetOwned(fsLock)
      BY TaskAssumption DEF ChainsGoOn, RenameInv
    <3>2. fsLock \in Job /\ IsTail(fsLock) /\ fsLock \in reverts'
      BY <3>1 DEF RenameInv, ChainsGoOn
    <3>3. \A o \in Job : o \in known' => o \in known' \cap Job
      OBVIOUS
    <3>4. known' \subseteq Job
      BY DEF TypeInv, TypeOK, JobTypes
    <3>5. ASSUME NEW o \in known' \ {fsLock'}, Active(o)', IsTail(o)', desc'[o].new = desc'[fsLock'].new
          PROVE  FALSE
      BY <1>2, <3>1, <3>2, <3>4, <3>5 DEF TargetOwned, Active
    <3>6. QED
      BY <3>1, <3>2, <3>5 DEF TargetOwned
  <2>9. QED
    BY <2>1, <2>2, <2>3, <2>4, <2>5, <2>6, <2>7, <2>8 DEF RenameInv, Saving, Undone
<1>7. \A t \in Job : Staged(t)' <=> Staged(t)
  BY <1>5 DEF Staged
<1>8. \A t \in Job : IsTail(t)' /\ Active(t)' /\ Staged(t)' => desc'[t].new \in files'
  BY <1>2, <1>7 DEF FilesInv, ChainsGoOn
<1>9. \A c \in Client : cmd'[c].then = "stage_save" =>
        \A t \in cmd'[c].own : IsTail(t)' => Undoes(t)' \/ Active(t)'
  BY <1>2, <1>3, <1>4, <1>5 DEF FilesInv
<1>10. ASSUME NEW n \in files'
       PROVE  \/ /\ \A t \in Job : IsTail(t)' => desc'[t].new # n
                 /\ \A c \in Client : cmd'[c].pc = "fs_lock" => cmd'[c].new # n
              \/ \E t \in Job : /\ IsTail(t)' /\ desc'[t].new = n
                                /\ Undoes(t)' \/ (Active(t)' /\ Staged(t)')
  <2>1. n \in files
    BY <1>10 DEF ChainsGoOn
  <2>2. CASE /\ \A t \in Job : IsTail(t) => desc[t].new # n
             /\ \A c \in Client : cmd[c].pc = "fs_lock" => cmd[c].new # n
    <3>1. \A c \in Client : cmd'[c].pc = "fs_lock" => cmd'[c] = cmd[c]
      BY DEF ChainsGoOn, CallKeeps
    <3>2. QED
      BY <1>2, <2>2, <3>1
  <2>3. CASE \E t \in Job : /\ IsTail(t) /\ desc[t].new = n
                            /\ Undoes(t) \/ (Active(t) /\ Staged(t))
    BY <1>2, <1>3, <1>7, <2>3
  <2>4. QED
    BY <2>1, <2>2, <2>3 DEF FilesInv
<1>11. QED
  BY <1>6, <1>8, <1>9, <1>10 DEF FilesInv

LEMMA OthersKeep ==
    ASSUME TypeInv, RenameInv, NEW c \in Client, NEW r, cmd' = [cmd EXCEPT ![c] = r], CallKeeps(cmd[c], r)
    PROVE  \A b \in Client : CallKeeps(cmd[b], cmd'[b])
<1>1. \A b \in Client \ {c} : CallKeeps(cmd[b], cmd[b])
  BY DEF RenameInv, CallKeeps, Saving
<1>2. cmd'[c] = r /\ \A b \in Client \ {c} : cmd'[b] = cmd[b]
  BY DEF TypeInv, TypeOK, TaskTypes
<1>3. QED
  BY <1>1, <1>2

LEMMA CallsRest ==
    ASSUME RenameInv, cmd' = cmd
    PROVE  \A b \in Client : CallKeeps(cmd[b], cmd'[b])
BY DEF RenameInv, CallKeeps, Saving

\* No job that is not there yet is a tail.
LEMMA NoNewTail ==
    ASSUME TypeInv, RenameInv, desc' = desc
    PROVE  \A j \in Job : j >= next => ~(desc'[j].type = "rename" /\ desc'[j].dep # NoJob)
<1>1. next \in Int /\ \A j \in Job : j \in Int
  BY BoundsAssumption DEF TypeInv, TypeOK, JobTypes
<1>2. QED
  BY <1>1 DEF RenameInv, IsTail

LEMMA CreationGoesOn ==
    ASSUME TypeInv, QueueInv, RenameInv, NEW c \in Client,
           \/ \E g \in Config : \/ Compile(c, g) \/ Upload(c, g) \/ Install(c, g) \/ Clean(c, g)
                                \/ AnalyzeMemory(c, g)
           \/ ResetBuildEnv(c)
    PROVE  ChainsGoOn
<1>1. PICK N \in SUBSET Job : \E r : Creates(c, N, r)
  BY SubmitCreates, InstallCreates, ResetCreates DEF Compile, Upload, Clean, AnalyzeMemory
<1>2. PICK r : Creates(c, N, r)
  BY <1>1
<1>3. /\ next \in 1..(MaxJob + 1) /\ desc \in [Job -> JobDesc] /\ cmd \in [Client -> Cmd] /\ known \subseteq Job
      /\ \A t \in Job : IsTail(t) => t < next
  BY DEF TypeInv, TypeOK, JobTypes, TaskTypes, RenameInv
<1>4. /\ cmd[c].pc = "idle" /\ fsLock' = fsLock
      /\ cmd'[c].then # "stage_save" /\ cmd'[c].pc = "cancel"
      /\ \A j \in Job : desc'[j].type = "rename" => desc'[j] = desc[j]
  <2>1. ASSUME NEW op, NEW ty \in {"compile", "upload", "clean", "analyze"}, NEW g \in Config, SubmitOne(c, op, ty, g)
        PROVE  /\ cmd[c].pc = "idle" /\ fsLock' = fsLock
               /\ cmd'[c].then # "stage_save" /\ cmd'[c].pc = "cancel"
               /\ \A j \in Job : desc'[j].type = "rename" => desc'[j] = desc[j]
    <3>1. /\ cmd[c].pc = "idle" /\ fsLock' = fsLock /\ cmd'[c] = Sweep(ActiveOf(g, {}), "save", {next})
          /\ desc' = [desc EXCEPT ![next] = NewJob(ty, g, NoConfig, NoJob)]
      BY <1>3, <2>1 DEF SubmitOne, CanCreate, fileVars
    <3>2. NewJob(ty, g, NoConfig, NoJob).type # "rename"
      BY DEF NewJob
    <3>3. QED
      BY <1>3, <3>1, <3>2, SweepRecord
  <2>2. ASSUME NEW g \in Config, Install(c, g)
        PROVE  /\ cmd[c].pc = "idle" /\ fsLock' = fsLock
               /\ cmd'[c].then # "stage_save" /\ cmd'[c].pc = "cancel"
               /\ \A j \in Job : desc'[j].type = "rename" => desc'[j] = desc[j]
    <3>1. /\ cmd[c].pc = "idle" /\ fsLock' = fsLock /\ cmd'[c] = Sweep(ActiveOf(g, {}), "save", {next, next + 1})
          /\ desc' = [desc EXCEPT ![next] = NewJob("compile", g, NoConfig, NoJob),
                                  ![next + 1] = NewJob("upload", g, NoConfig, next)]
      BY <1>3, <2>2 DEF Install, CanCreate, fileVars
    <3>2. NewJob("compile", g, NoConfig, NoJob).type # "rename" /\ NewJob("upload", g, NoConfig, next).type # "rename"
      BY DEF NewJob
    <3>3. QED
      BY <1>3, <3>1, <3>2, SweepRecord
  <2>3. ASSUME ResetBuildEnv(c)
        PROVE  /\ cmd[c].pc = "idle" /\ fsLock' = fsLock
               /\ cmd'[c].then # "stage_save" /\ cmd'[c].pc = "cancel"
               /\ \A j \in Job : desc'[j].type = "rename" => desc'[j] = desc[j]
    <3>1. /\ cmd[c].pc = "idle" /\ fsLock' = fsLock /\ cmd'[c] = Sweep({j \in known : Active(j)}, "place", {next})
          /\ desc' = [desc EXCEPT ![next] = NewJob("reset", NoConfig, NoConfig, NoJob)]
      BY <1>3, <2>3 DEF ResetBuildEnv, CanCreate, fileVars
    <3>2. NewJob("reset", NoConfig, NoConfig, NoJob).type # "rename"
      BY DEF NewJob
    <3>3. QED
      BY <1>3, <3>1, <3>2, SweepRecord
  <2>4. QED
    BY <2>1, <2>2, <2>3 DEF Compile, Upload, Clean, AnalyzeMemory
<1>5. r.then # "stage_save" /\ r.pc = "cancel"
  BY <1>2, <1>3, <1>4 DEF Creates
<1>6. CallKeeps(cmd[c], r)
  <2>1. cmd[c].then # "stage_save"
    BY <1>4 DEF RenameInv, SweepPc, StagePc
  <2>2. QED
    BY <1>4, <1>5, <2>1 DEF CallKeeps, Saving, StagePc
<1>7. \A b \in Client : CallKeeps(cmd[b], cmd'[b])
  BY <1>2, <1>6, OthersKeep DEF Creates
<1>8. \A j \in Job : j >= next => ~(desc'[j].type = "rename" /\ desc'[j].dep # NoJob)
  <2> SUFFICES ASSUME NEW j \in Job, j >= next, desc'[j].type = "rename", desc'[j].dep # NoJob PROVE FALSE
    OBVIOUS
  <2>1. desc[j].type = "rename" /\ desc[j].dep # NoJob
    BY <1>3, <1>4
  <2>2. QED
    BY <1>3, <2>1 DEF IsTail
<1>9. \A t \in Job : Active(t) => Active(t)'
  <2>1. \A j \in N : status'[j] = "queued" /\ j \in known'
    BY <1>2 DEF Creates
  <2>2. \A j \in Job \ N : status'[j] = status[j]
    BY <1>2 DEF Creates
  <2>3. known \subseteq known'
    BY <1>2 DEF Creates
  <2>4. QED
    BY <2>1, <2>2, <2>3 DEF Active
<1>10. files' = files /\ reverts' = reverts
  BY <1>2 DEF Creates
<1>11. QED
  BY <1>4, <1>7, <1>8, <1>9, <1>10 DEF ChainsGoOn

\* Steps of one call that change no status.
LEMMA CallKeepsChains ==
    ASSUME TypeInv, QueueInv, RenameInv, LiveKept, NEW c \in Client,
           \/ \E j \in Job : Cancel(c, j)
           \/ \E st \in ClearStatuses : Clear(c, st)
           \/ StageSaved(c) \/ CancelRunning(c) \/ CancelMissed(c) \/ Killed(c)
           \/ SweepDone(c) \/ ResetSwept(c) \/ CommitSaved(c) \/ (RenameLock(c) /\ UNCHANGED jobVars)
    PROVE  ChainsGoOn
<1>1. /\ cmd \in [Client -> Cmd] /\ cmd[c] \in Cmd
  BY DEF TypeInv, TypeOK, TaskTypes
<1>2. /\ desc' = desc /\ status' = status /\ files' = files /\ reverts' = reverts
      /\ fsLock' = fsLock \/ (fsLock' = NoOne /\ fsLock = c /\ cmd[c].pc = "save")
  <2>1. CASE \/ \E j \in Job : Cancel(c, j)
             \/ StageSaved(c) \/ CancelRunning(c) \/ CancelMissed(c) \/ Killed(c)
             \/ SweepDone(c) \/ ResetSwept(c) \/ CommitSaved(c)
    BY <2>1 DEF Cancel, StageSaved, CancelRunning, CancelMissed, Killed, SweepDone, ResetSwept, CommitSaved,
                jobVars, fileVars
  <2>2. CASE \E st \in ClearStatuses : Clear(c, st)
    BY <2>2 DEF Clear, fileVars
  <2>3. CASE RenameLock(c) /\ UNCHANGED jobVars
    <3>1. next \in Int /\ next' = next
      BY <2>3, BoundsAssumption DEF TypeInv, TypeOK, JobTypes, jobVars
    <3>2. QED
      BY <2>3, <3>1 DEF RenameLock, jobVars, fileVars
  <2>4. QED
    BY <2>1, <2>2, <2>3
<1>3. \A t \in Job : Active(t) => t \in known'
  <2>1. CASE \E st \in ClearStatuses : Clear(c, st)
    BY <2>1 DEF Clear, LiveKept, Active
  <2>2. CASE known' = known
    BY <2>2 DEF Active
  <2>3. QED
    BY <2>1, <2>2 DEF Cancel, StageSaved, CancelRunning, CancelMissed, Killed, SweepDone, ResetSwept, CommitSaved, jobVars
<1>4. \E r : cmd' = [cmd EXCEPT ![c] = r] /\ CallKeeps(cmd[c], r)
  <2>1. cmd[c].pc \in {"idle", "save", "fs_lock"} => cmd[c].then # "stage_save"
    BY DEF RenameInv, SweepPc, StagePc
  <2>2. cmd[c].pc \in StagePc => cmd[c].then = "stage_save"
    BY DEF RenameInv
  <2>3. /\ IdleCmd.pc = "idle" /\ IdleCmd.then = "idle"
    BY DEF IdleCmd
  <2>4. CASE \E j \in Job : Cancel(c, j)
    <3>1. PICK j \in Job : Cancel(c, j)
      BY <2>4
    <3>2. cmd' = [cmd EXCEPT ![c] = Sweep({j}, "idle", {})] /\ cmd[c].pc = "idle"
      BY <3>1 DEF Cancel
    <3>3. CallKeeps(cmd[c], Sweep({j}, "idle", {}))
      BY <2>1, <3>2, SweepRecord DEF CallKeeps, Saving, StagePc
    <3>4. QED
      BY <3>2, <3>3
  <2>5. CASE \E st \in ClearStatuses : Clear(c, st)
    <3> DEFINE r == [IdleCmd EXCEPT !.pc = "save"]
    <3>1. cmd' = [cmd EXCEPT ![c] = r] /\ cmd[c].pc = "idle"
      BY <2>5 DEF Clear
    <3>2. r.pc = "save" /\ r.then = "idle"
      BY DEF IdleCmd
    <3> HIDE DEF r
    <3>3. CallKeeps(cmd[c], r)
      BY <2>1, <3>1, <3>2 DEF CallKeeps, Saving, StagePc
    <3>4. QED
      BY <3>1, <3>3
  <2>6. CASE StageSaved(c)
    <3> DEFINE r == [cmd[c] EXCEPT !.pc = "stage_write"]
    <3>1. cmd' = [cmd EXCEPT ![c] = r] /\ cmd[c].pc = "stage_save"
      BY <2>6 DEF StageSaved
    <3>2. r.pc = "stage_write" /\ r.then = cmd[c].then /\ r.own = cmd[c].own /\ r.new = cmd[c].new
      BY <1>1 DEF Cmd
    <3> HIDE DEF r
    <3>3. CallKeeps(cmd[c], r)
      BY <2>2, <3>1, <3>2 DEF CallKeeps, Saving, StagePc
    <3>4. QED
      BY <3>1, <3>3
  <2>7. CASE CancelRunning(c)
    <3> DEFINE r == [cmd[c] EXCEPT !.pc = "kill", !.job = MinOf(cmd[c].todo)]
    <3>1. cmd' = [cmd EXCEPT ![c] = r] /\ cmd[c].pc = "cancel"
      BY <2>7 DEF CancelRunning, Sweeping
    <3>2. r.pc = "kill" /\ r.then = cmd[c].then /\ r.own = cmd[c].own /\ r.new = cmd[c].new
      BY <1>1 DEF Cmd
    <3> HIDE DEF r
    <3>3. CallKeeps(cmd[c], r)
      BY <3>1, <3>2 DEF CallKeeps, Saving, StagePc, SweepPc
    <3>4. QED
      BY <3>1, <3>3
  <2>8. CASE CancelMissed(c)
    <3> DEFINE r == [cmd[c] EXCEPT !.todo = cmd[c].todo \ {MinOf(cmd[c].todo)}]
    <3>1. cmd' = [cmd EXCEPT ![c] = r] /\ cmd[c].pc = "cancel"
      BY <2>8 DEF CancelMissed, Sweeping
    <3>2. r.pc = "cancel" /\ r.then = cmd[c].then /\ r.own = cmd[c].own /\ r.new = cmd[c].new
      BY <1>1, <3>1 DEF Cmd
    <3> HIDE DEF r
    <3>3. CallKeeps(cmd[c], r)
      BY <3>1, <3>2 DEF CallKeeps, Saving, StagePc, SweepPc
    <3>4. QED
      BY <3>1, <3>3
  <2>9. CASE Killed(c)
    <3> DEFINE r == [cmd[c] EXCEPT !.pc = "cancel", !.todo = cmd[c].todo \ {cmd[c].job}, !.job = NoJob]
    <3>1. cmd' = [cmd EXCEPT ![c] = r] /\ cmd[c].pc = "kill"
      BY <2>9 DEF Killed
    <3>2. r.pc = "cancel" /\ r.then = cmd[c].then /\ r.own = cmd[c].own /\ r.new = cmd[c].new
      BY <1>1 DEF Cmd
    <3> HIDE DEF r
    <3>3. CallKeeps(cmd[c], r)
      BY <3>1, <3>2 DEF CallKeeps, Saving, StagePc, SweepPc
    <3>4. QED
      BY <3>1, <3>3
  <2>10. CASE SweepDone(c)
    <3>1. cmd[c].pc = "cancel" /\ cmd[c].then \in {"idle", "save", "stage_save"}
      BY <1>1, <2>10 DEF SweepDone, Cmd
    <3>2. CASE cmd[c].then = "idle"
      <4>1. cmd' = [cmd EXCEPT ![c] = IdleCmd]
        BY <2>10, <3>2 DEF SweepDone
      <4>2. CallKeeps(cmd[c], IdleCmd)
        BY <2>3, <3>1, <3>2 DEF CallKeeps, Saving, StagePc
      <4>3. QED
        BY <4>1, <4>2
    <3>3. CASE cmd[c].then # "idle"
      <4> DEFINE r == [cmd[c] EXCEPT !.pc = cmd[c].then]
      <4>1. cmd' = [cmd EXCEPT ![c] = r]
        BY <2>10, <3>3 DEF SweepDone
      <4>2. r.pc = cmd[c].then /\ r.then = cmd[c].then /\ r.own = cmd[c].own /\ r.new = cmd[c].new
        BY <1>1 DEF Cmd
      <4> HIDE DEF r
      <4>3. CallKeeps(cmd[c], r)
        BY <3>1, <3>3, <4>2 DEF CallKeeps, Saving, StagePc, SweepPc
      <4>4. QED
        BY <4>1, <4>3
    <3>4. QED
      BY <3>2, <3>3
  <2>11. CASE ResetSwept(c)
    <3> DEFINE r == [cmd[c] EXCEPT !.pc = "save"]
    <3>1. cmd' = [cmd EXCEPT ![c] = r] /\ cmd[c].pc = "cancel" /\ cmd[c].then = "place"
      BY <2>11 DEF ResetSwept
    <3>2. r.pc = "save" /\ r.then = cmd[c].then
      BY <1>1 DEF Cmd
    <3> HIDE DEF r
    <3>3. CallKeeps(cmd[c], r)
      BY <3>1, <3>2 DEF CallKeeps, Saving, StagePc, SweepPc
    <3>4. QED
      BY <3>1, <3>3
  <2>12. CASE CommitSaved(c) \/ (RenameLock(c) /\ UNCHANGED jobVars)
    <3>1. cmd' = [cmd EXCEPT ![c] = IdleCmd] /\ cmd[c].pc \in {"save", "fs_lock"}
      <4>1. CASE CommitSaved(c)
        BY <4>1 DEF CommitSaved
      <4>2. CASE RenameLock(c) /\ UNCHANGED jobVars
        BY <4>2 DEF RenameLock, jobVars, TypeInv, TypeOK, JobTypes
      <4>3. QED
        BY <2>12, <4>1, <4>2
    <3>2. CallKeeps(cmd[c], IdleCmd)
      BY <2>1, <2>3, <3>1 DEF CallKeeps, Saving, StagePc
    <3>3. QED
      BY <3>1, <3>2
  <2>13. QED
    BY <2>4, <2>5, <2>6, <2>7, <2>8, <2>9, <2>10, <2>11, <2>12
<1>5. \A b \in Client : CallKeeps(cmd[b], cmd'[b])
  BY <1>4, OthersKeep
<1>6. fsLock' = fsLock \/ \A b \in Client : cmd'[b].then # "stage_save"
  <2>1. CASE fsLock = c /\ cmd[c].pc = "save"
    <3>1. \A b \in Client : cmd[b].then # "stage_save"
      BY <2>1 DEF RenameInv, SweepPc, StagePc
    <3>2. QED
      BY <1>5, <3>1 DEF CallKeeps
  <2>2. QED
    BY <1>2, <2>1
<1>7. QED
  BY <1>2, <1>3, <1>5, <1>6, NoNewTail DEF ChainsGoOn, Active

\* The steps of jobs.cancel that settle a job.
LEMMA CancelGoesOn ==
    ASSUME TypeInv, QueueInv, RenameInv, NEW c \in Client,
           CancelQueued(c) \/ CancelSaved(c) \/ CancelSavedAgain(c)
    PROVE  ChainsGoOn
<1>1. /\ cmd \in [Client -> Cmd] /\ cmd[c] \in Cmd /\ status \in [Job -> Status] /\ known \subseteq Job
      /\ cmd[c].pc \in Saving => cmd[c].job \in Job /\ status[cmd[c].job] = "cancelled"
  BY DEF TypeInv, TypeOK, TaskTypes, JobTypes, RenameInv, TaskInv, CmdInv, Saving
<1>2. fsLock' = fsLock /\ files' = files /\ desc' = desc
  BY DEF CancelQueued, CancelSaved, CancelSavedAgain, fileVars, jobVars
<1>3. CASE CancelQueued(c)
  <2> DEFINE j == MinOf(cmd[c].todo)
             r == [cmd[c] EXCEPT !.pc = "save1", !.job = j]
  <2>1. /\ cmd[c].pc = "cancel" /\ status' = [status EXCEPT ![j] = "cancelled"] /\ known' = Prune(known, status')
        /\ cmd' = [cmd EXCEPT ![c] = r] /\ reverts' = reverts /\ j \in known
    BY <1>3 DEF CancelQueued, Sweeping, fileVars
  <2>2. r.pc = "save1" /\ r.job = j /\ r.then = cmd[c].then /\ r.own = cmd[c].own /\ r.new = cmd[c].new
    BY <1>1 DEF Cmd
  <2> HIDE DEF r, j
  <2>3. status'[j] = "cancelled" /\ \A t \in Job \ {j} : status'[t] = status[t]
    BY <1>1, <2>1
  <2>4. CallKeeps(cmd[c], r)
    BY <2>1, <2>2, <2>3 DEF CallKeeps, Saving, StagePc, SweepPc
  <2>5. \A t \in Job \ {j} : Active(t) => Active(t)'
    BY <2>1, <2>3, PruneKeeps DEF Active
  <2>6. cmd'[c].pc \in Saving /\ cmd'[c].job = j
    BY <1>1, <2>1, <2>2 DEF Saving
  <2>7. \A b \in Client : CallKeeps(cmd[b], cmd'[b])
    BY <2>1, <2>4, OthersKeep
  <2>8. QED
    BY <1>2, <2>1, <2>5, <2>6, <2>7, NoNewTail DEF ChainsGoOn
<1>4. ASSUME cmd[c].pc \in Saving, CancelEnds(c, cmd[c].job), status' = status, known' = known
      PROVE  ChainsGoOn
  <2> DEFINE j == cmd[c].job
             more == IF IsTail(j) /\ Active(desc[j].dep) THEN {desc[j].dep} ELSE {}
             r == [cmd[c] EXCEPT !.pc = "cancel", !.job = NoJob, !.todo = (cmd[c].todo \ {j}) \cup more]
  <2>1. /\ cmd' = [cmd EXCEPT ![c] = r] /\ reverts' = reverts \cup (IF IsTail(j) THEN {j} ELSE {})
    BY <1>4 DEF CancelEnds
  <2>2. r.pc = "cancel" /\ r.then = cmd[c].then /\ r.own = cmd[c].own /\ r.new = cmd[c].new
    BY <1>1 DEF Cmd
  <2> HIDE DEF r
  <2>3. CallKeeps(cmd[c], r)
    BY <2>1, <2>2 DEF CallKeeps, Saving, StagePc, SweepPc
  <2>4. \A b \in Client : CallKeeps(cmd[b], cmd'[b])
    BY <2>1, <2>3, OthersKeep
  <2>5. \A t \in Job : Active(t) => Active(t)'
    BY <1>4 DEF Active
  <2>6. reverts \subseteq reverts' /\ \A t \in reverts' \ reverts : t \in Job /\ IsTail(t) /\ status'[t] \in Undone
    BY <1>1, <1>4, <2>1 DEF Undone
  <2>7. QED
    BY <1>2, <2>4, <2>5, <2>6, NoNewTail DEF ChainsGoOn
<1>5. CASE CancelSavedAgain(c)
  BY <1>4, <1>5 DEF CancelSavedAgain, jobVars, Saving
<1>6. CASE CancelSaved(c)
  <2> DEFINE held == Held(cmd[c].job)
             r == [cmd[c] EXCEPT !.pc = "save2"]
  <2>1. CASE held = {}
    BY <1>4, <1>6, <2>1 DEF CancelSaved, Saving
  <2>2. CASE held # {}
    <3>1. /\ cmd[c].pc = "save1" /\ status' = [i \in Job |-> IF i \in held THEN "cancelled" ELSE status[i]]
          /\ known' = Prune(known, status') /\ reverts' = reverts \cup {d \in held : IsTail(d)}
          /\ cmd' = [cmd EXCEPT ![c] = r]
      BY <1>6, <2>2 DEF CancelSaved
    <3>2. r.pc = "save2" /\ r.job = cmd[c].job /\ r.then = cmd[c].then /\ r.own = cmd[c].own /\ r.new = cmd[c].new
      BY <1>1 DEF Cmd
    <3>3. held \subseteq Job
      BY <1>1 DEF Held, Dependents
    <3> HIDE DEF r, held
    <3>4. CallKeeps(cmd[c], r)
      BY <3>1, <3>2 DEF CallKeeps, Saving, StagePc, SweepPc
    <3>5. \A b \in Client : CallKeeps(cmd[b], cmd'[b])
      BY <3>1, <3>4, OthersKeep
    <3>6. \A t \in Job \ held : Active(t) => Active(t)'
      BY <3>1, PruneKeeps DEF Active
    <3>7. \A t \in held : IsTail(t) => t \in reverts'
      BY <3>1
    <3>8. reverts \subseteq reverts' /\ \A t \in reverts' \ reverts : t \in Job /\ IsTail(t) /\ status'[t] \in Undone
      BY <3>1, <3>3 DEF Undone
    <3>9. QED
      BY <1>2, <3>5, <3>6, <3>7, <3>8, NoNewTail DEF ChainsGoOn
  <2>3. QED
    BY <2>1, <2>2
<1>7. QED
  BY <1>3, <1>5, <1>6

\* A run that ends: its tail is undone unless it went through, and so are the tails held on it.
LEMMA FinishGoesOn ==
    ASSUME TypeInv, QueueInv, RenameInv, NEW w \in Worker, NEW rc \in Terminal, NEW offline \in BOOLEAN,
           wpc[w] \in SlotPc, FinishRun(w, rc, offline),
           files' \subseteq files,
           \A t \in Job : IsTail(t) /\ Active(t)' /\ desc[t].new \in files => desc[t].new \in files'
    PROVE  ChainsGoOn
<1> DEFINE j == wjob[w]
           held == Held(j)
           over == IF rc = "completed" /\ ~offline THEN {j} ELSE {j} \cup held
<1>1. /\ j \in Job /\ known \subseteq Job /\ held \subseteq Job
  BY DEF TypeInv, TypeOK, JobTypes, TaskInv, SlotPc, Held, Dependents
<1>2. /\ status' = [i \in Job |-> IF i = j THEN rc ELSE IF i \in over THEN "cancelled" ELSE status[i]]
      /\ reverts' = reverts \cup {t \in over : IsTail(t) /\ status'[t] # "completed"}
      /\ known' = Prune(known, status') /\ cmd' = cmd /\ desc' = desc /\ fsLock' = fsLock
  BY DEF FinishRun
<1>3. over \subseteq Job
  BY <1>1
<1> HIDE DEF j, held, over
<1>4. \A t \in Job : t \notin over /\ t # j /\ Active(t) => Active(t)'
  BY <1>2, PruneKeeps DEF Active
<1>5. \A t \in over : IsTail(t) => status'[t] = "completed" \/ t \in reverts'
  BY <1>2
<1>6. j \in over
  BY DEF over
<1>7. reverts \subseteq reverts' /\ \A t \in reverts' \ reverts : t \in Job /\ IsTail(t) /\ status'[t] \in Undone
  BY <1>2, <1>3 DEF Undone
<1>8. \A b \in Client : CallKeeps(cmd[b], cmd'[b])
  BY <1>2, CallsRest
<1>9. QED
  BY <1>2, <1>4, <1>5, <1>6, <1>7, <1>8, NoNewTail DEF ChainsGoOn

LEMMA EndsGoOn ==
    ASSUME TypeInv, QueueInv, KnownInv, RenameInv, Moves, NEW w \in Worker,
           \/ PrepFails(w) \/ EpilogueFails(w) \/ EpilogueDone(w)
           \/ \E ok, offline \in BOOLEAN : Exit(w, ok, offline)
    PROVE  ChainsGoOn
<1>1. PICK rc \in Terminal, offline \in BOOLEAN : FinishRun(w, rc, offline)
  BY FinishSteps
<1>2. wpc[w] \in SlotPc
  BY FinishSteps
<1>3. CASE files' = files
  BY <1>1, <1>2, <1>3, FinishGoesOn
<1>4. CASE EpilogueDone(w) /\ IsTail(wjob[w])
  <2> DEFINE k == wjob[w]
  <2>1. files' = files \ {desc[k].cfg} /\ IsTail(k)
    BY <1>4 DEF EpilogueDone
  <2>2. k \in Job /\ status[k] = "running"
    BY <1>2 DEF TypeInv, TaskInv, SlotPc, QueueInv, StatusInv
  <2>3. Active(k)
    BY <2>2 DEF KnownInv, Needed, Active
  <2>4. ASSUME NEW t \in Job, IsTail(t), Active(t)' PROVE desc[t].new # desc[k].cfg
    <3>1. Active(t)
      <4>1. t < next /\ next \in Int /\ t \in Int
        BY <2>4, BoundsAssumption DEF RenameInv, TypeInv, TypeOK, JobTypes
      <4>2. QED
        BY <2>4, <4>1 DEF Moves, Active, Waiting
    <3>2. CASE desc[t].cfg = desc[k].cfg
      BY <2>4, <3>2 DEF RenameInv
    <3>3. CASE desc[t].cfg # desc[k].cfg
      <4>1. Touches(desc[t]) \cap Touches(desc[k]) = {}
        BY <2>1, <2>2, <2>3, <2>4, <3>1, <3>3 DEF RenameInv
      <4>2. desc[k].cfg \in Config /\ desc[t].new \in Config
        BY <2>1, <2>2, <2>4 DEF RenameInv
      <4>3. desc[k].cfg \in Touches(desc[k]) /\ desc[t].new \in Touches(desc[t])
        BY <4>2, ConfigAssumption DEF Touches
      <4>4. QED
        BY <4>1, <4>3
    <3>4. QED
      BY <3>2, <3>3
  <2>5. QED
    BY <1>1, <1>2, <2>1, <2>4, FinishGoesOn
<1>5. QED
  BY <1>3, <1>4 DEF PrepFails, EpilogueFails, EpilogueDone, Exit

\* Workers that take, park, start or let go of a job, saves, and steps of others.
LEMMA RestGoesOn ==
    ASSUME TypeInv, QueueInv, RenameInv,
           \/ \E w \in Worker : \/ Take(w) \/ Recheck(w) \/ Begun(w) \/ Spawn(w) \/ ExitToEpilogue(w) \/ Ended(w)
           \/ SaveStep \/ UNCHANGED vars
    PROVE  ChainsGoOn
<1>1. /\ known' = known /\ desc' = desc /\ cmd' = cmd /\ files' = files /\ fsLock' = fsLock /\ reverts' = reverts
  BY DEF Take, Recheck, Begun, Spawn, ExitToEpilogue, Ended, SaveStep, SaveBegin, SaveJob, SaveWrite, jobVars,
         fileVars, vars
<1>2. \A t \in Job : status'[t] = status[t] \/ status'[t] = "running"
  <2>1. CASE status' = status
    BY <2>1
  <2>2. CASE \E w \in Worker : Take(w) \/ Recheck(w)
    <3>1. PICK w \in Worker : Take(w) \/ Recheck(w)
      BY <2>2
    <3>2. \A t \in Job : status'[t] = status[t] \/ (status[t] \in Idling \ Terminal /\ status'[t] = "running")
      BY <3>1, ConsiderFacts
    <3>3. QED
      BY <3>2
  <2>3. QED
    BY <2>1, <2>2 DEF Begun, Spawn, ExitToEpilogue, Ended, SaveStep, SaveBegin, SaveJob, SaveWrite, jobVars, vars
<1>3. \A t \in Job : Active(t) => Active(t)'
  BY <1>1, <1>2 DEF Active
<1>4. QED
  BY <1>1, <1>3, CallsRest, NoNewTail DEF ChainsGoOn

-----------------------------------------------------------------------------
(* The steps that stage a chain, write its file, give it up, or undo it *)

\* A call that wants to rename waits for the lock of the files: a file under the new name is one of a
\* chain's already (OwnsTarget), or was not there.
LEMMA RenameYaml ==
    ASSUME TypeInv, QueueInv, RenameInv, FilesInv, NEW c \in Client,
           \E g, n \in Config : Rename(c, g, n)
    PROVE  RenameInv' /\ FilesInv'
<1>1. PICK g \in Config, n \in Config : Rename(c, g, n)
  OBVIOUS
<1> DEFINE r == [IdleCmd EXCEPT !.pc = "fs_lock", !.cfg = g, !.new = n]
<1>2. /\ cmd[c].pc = "idle" /\ g # n /\ (n \in files => OwnsTarget(g, n)) /\ cmd' = [cmd EXCEPT ![c] = r]
      /\ UNCHANGED <<next, known, desc, status, files, fsLock, reverts>>
  BY <1>1 DEF Rename, CanCreate, jobVars, fileVars
<1>3. r.pc = "fs_lock" /\ r.cfg = g /\ r.new = n /\ r.then = "idle" /\ r.own = {}
  BY DEF IdleCmd
<1> HIDE DEF r
<1>4. /\ cmd'[c] = r /\ \A b \in Client \ {c} : cmd'[b] = cmd[b]
      /\ cmd[c].then # "stage_save"
  BY <1>2 DEF TypeInv, TypeOK, TaskTypes, RenameInv, SweepPc, StagePc
<1>5. \A t \in Job : /\ IsTail(t)' <=> IsTail(t)
                     /\ Active(t)' <=> Active(t)
                     /\ Undoes(t)' <=> Undoes(t)
                     /\ Staged(t)' <=> Staged(t)
  <2>1. \A t \in Job : (IsTail(t)' <=> IsTail(t)) /\ (Active(t)' <=> Active(t))
    BY <1>2 DEF IsTail, Active
  <2>2. \A t \in Job : Undoes(t)' <=> Undoes(t)
    BY <1>2, <1>3, <1>4 DEF Undoes
  <2>3. \A t \in Job : Staged(t)' <=> Staged(t)
    BY <1>3, <1>4 DEF Staged
  <2>4. QED
    BY <2>1, <2>2, <2>3
<1>6. TargetOwned(fsLock)' <=> TargetOwned(fsLock)
  BY <1>2 DEF TargetOwned, Active, IsTail
<1>7. \A b \in Client : cmd[b].own \subseteq Job
  BY DEF TypeInv, TypeOK, TaskTypes, Cmd
<1>8. RenameInv'
  <2>1. \A b \in Client : cmd'[b].pc = "fs_lock" => cmd'[b].cfg \in Config /\ cmd'[b].cfg # cmd'[b].new
    BY <1>2, <1>3, <1>4 DEF RenameInv
  <2>2. \A b \in Client : cmd'[b].pc \in Saving => status'[cmd'[b].job] = "cancelled"
    BY <1>2, <1>3, <1>4 DEF RenameInv, Saving
  <2>3. \A b \in Client : cmd'[b].pc \in StagePc => cmd'[b].then = "stage_save"
    BY <1>3, <1>4 DEF RenameInv, StagePc
  <2>4. \A b \in Client : cmd'[b].then = "stage_save" =>
           /\ cmd'[b].pc \in SweepPc \cup StagePc /\ fsLock' = b
           /\ \E t \in cmd'[b].own : IsTail(t)'
           /\ \A t \in cmd'[b].own : IsTail(t)' => desc'[t].new = cmd'[b].new
    BY <1>2, <1>3, <1>4, <1>5, <1>7 DEF RenameInv
  <2>5. \A t \in Job : IsTail(t)' => /\ t < next' /\ desc'[t].cfg # desc'[t].new
                                     /\ desc'[t].cfg \in Config /\ desc'[t].new \in Config
    BY <1>2, <1>5 DEF RenameInv
  <2>6. \A s, t \in Job : /\ IsTail(s)' /\ Active(s)' /\ IsTail(t)' /\ Active(t)'
                          /\ desc'[s].cfg # desc'[t].cfg
                          => Touches(desc'[s]) \cap Touches(desc'[t]) = {}
    BY <1>2, <1>5 DEF RenameInv
  <2>7. \A t \in reverts' : IsTail(t)' /\ status'[t] \in Undone
    BY <1>2, <1>5 DEF RenameInv, Undone, TypeInv, TypeOK, FileTypes
  <2>8. fsLock' \in Job => fsLock' \in reverts' /\ ~TargetOwned(fsLock)'
    BY <1>2, <1>6 DEF RenameInv
  <2>9. QED
    BY <2>1, <2>2, <2>3, <2>4, <2>5, <2>6, <2>7, <2>8 DEF RenameInv, Saving, Undone
<1>9. \A m \in files : \/ /\ \A t \in Job : IsTail(t)' => desc'[t].new # m
                          /\ \A b \in Client : cmd'[b].pc = "fs_lock" => cmd'[b].new # m
                       \/ \E t \in Job : /\ IsTail(t)' /\ desc'[t].new = m
                                         /\ Undoes(t)' \/ (Active(t)' /\ Staged(t)')
  <2> SUFFICES ASSUME NEW m \in files
               PROVE  \/ /\ \A t \in Job : IsTail(t) => desc[t].new # m
                         /\ \A b \in Client : cmd'[b].pc = "fs_lock" => cmd'[b].new # m
                      \/ \E t \in Job : /\ IsTail(t) /\ desc[t].new = m
                                        /\ Undoes(t) \/ (Active(t) /\ Staged(t))
    BY <1>2, <1>5
  <2>1. CASE /\ \A t \in Job : IsTail(t) => desc[t].new # m
             /\ \A b \in Client : cmd[b].pc = "fs_lock" => cmd[b].new # m
    <3>1. m # n
      BY <1>2, <2>1 DEF OwnsTarget, TypeInv, TypeOK, JobTypes
    <3>2. QED
      BY <1>3, <1>4, <2>1, <3>1
  <2>2. QED
    BY <2>1 DEF FilesInv
<1>10. FilesInv'
  BY <1>2, <1>3, <1>4, <1>5, <1>7, <1>9 DEF FilesInv
<1>11. QED
  BY <1>8, <1>10

\* Under the lock the chain is created and nobody else's files are touched by it (check_rename_lock).
LEMMA RenameLockYaml ==
    ASSUME TypeInv, TypeInv', QueueInv, RenameInv, FilesInv, NEW c \in Client, RenameLock(c), ~UNCHANGED jobVars
    PROVE  RenameInv' /\ FilesInv'
<1> DEFINE g == cmd[c].cfg
           n == cmd[c].new
           d == NewJob("rename", g, n, next)
           h == NewJob("compile", n, NoConfig, NoJob)
           r == [Sweep(ActiveOf(g, {}), "stage_save", {next, next + 1}) EXCEPT !.new = n]
<1>1. /\ cmd[c].pc = "fs_lock" /\ fsLock = NoOne /\ ~RenameLocked(d) /\ next + 2 <= MaxJob + 1
      /\ fsLock' = c /\ desc' = [desc EXCEPT ![next] = h, ![next + 1] = d] /\ next' = next + 2
      /\ known' = known \cup {next, next + 1}
      /\ status' = [status EXCEPT ![next] = "queued", ![next + 1] = "queued"]
      /\ cmd' = [cmd EXCEPT ![c] = r] /\ files' = files /\ reverts' = reverts
  BY DEF RenameLock, jobVars
<1>2. /\ next \in 1..(MaxJob + 1) /\ MaxJob \in Nat /\ desc \in [Job -> JobDesc] /\ status \in [Job -> Status]
      /\ cmd \in [Client -> Cmd] /\ known \subseteq Job /\ reverts \subseteq Job
      /\ \A t \in Job : IsTail(t) => t < next
      /\ \A b \in Client : cmd[b].own \subseteq Job /\ \A j \in Job : j >= next => j \notin cmd[b].own
      /\ \A j \in Job : j >= next => status[j] = "none" /\ j \notin known
      /\ g \in Config /\ n \in Config /\ g # n
  BY <1>1, BoundsAssumption DEF TypeInv, TypeOK, JobTypes, TaskTypes, FileTypes, RenameInv, QueueInv, FreshInv, TaskInv, CmdInv, Cmd
<1>3. next \in Job /\ next + 1 \in Job /\ next # next + 1
  BY <1>1, <1>2
<1>4. /\ d.type = "rename" /\ d.cfg = g /\ d.new = n /\ d.dep = next /\ h.type = "compile"
      /\ Touches(d) = {g, n}
  BY <1>2, ConfigAssumption DEF NewJob, Touches
<1>5. r.pc = "cancel" /\ r.then = "stage_save" /\ r.own = {next, next + 1} /\ r.new = n
  BY DEF Sweep, IdleCmd
<1> HIDE DEF r, d, h
<1>6. /\ desc'[next + 1] = d /\ desc'[next] = h /\ \A j \in Job \ {next, next + 1} : desc'[j] = desc[j]
      /\ status'[next + 1] = "queued" /\ status'[next] = "queued"
      /\ \A j \in Job \ {next, next + 1} : status'[j] = status[j]
      /\ cmd'[c] = r /\ \A b \in Client \ {c} : cmd'[b] = cmd[b]
  BY <1>1, <1>2, <1>3
<1>7. \A b \in Client : cmd[b].then # "stage_save" /\ cmd[b].pc \notin StagePc
  BY <1>1, TaskAssumption DEF RenameInv, Proc
<1>8. \A t \in Job : IsTail(t) => /\ t < next /\ t # next + 1 /\ t # next
                                  /\ IsTail(t)' /\ desc'[t] = desc[t]
                                  /\ Active(t)' <=> Active(t)
                                  /\ Undoes(t) => Undoes(t)'
                                  /\ Staged(t)'
  <2> SUFFICES ASSUME NEW t \in Job, IsTail(t)
               PROVE  /\ t < next /\ t # next + 1 /\ t # next
                      /\ IsTail(t)' /\ desc'[t] = desc[t]
                      /\ Active(t)' <=> Active(t)
                      /\ Undoes(t) => Undoes(t)'
                      /\ Staged(t)'
    OBVIOUS
  <2>1. t < next /\ t # next + 1 /\ t # next
    BY <1>2
  <2>2. IsTail(t)' /\ desc'[t] = desc[t] /\ (Active(t)' <=> Active(t))
    BY <1>1, <1>6, <2>1 DEF IsTail, Active
  <2>3. Undoes(t) => Undoes(t)'
    <3>1. status'[t] = status[t]
      BY <1>6, <2>1
    <3>2. \A b \in Client : cmd[b].pc \in Saving => cmd'[b] = cmd[b]
      BY <1>1, <1>6 DEF Saving
    <3>3. QED
      BY <1>1, <3>1, <3>2 DEF Undoes, Saving
  <2>4. Staged(t)'
    BY <1>5, <1>6, <1>7, <2>1 DEF Staged
  <2>5. QED
    BY <2>1, <2>2, <2>3, <2>4
<1> PICK i \in Job, k \in Job : i = next /\ k = next + 1
  BY <1>3
<1>9. /\ IsTail(k)' /\ Active(k)' /\ ~IsTail(i)'
      /\ \A t \in Job : IsTail(t)' => IsTail(t) \/ t = k
  <2>1. IsTail(k)' /\ ~IsTail(i)'
    BY <1>2, <1>4, <1>6 DEF IsTail
  <2>2. Active(k)'
    BY <1>1, <1>6 DEF Active
  <2>3. ASSUME NEW t \in Job, t # k, IsTail(t)' PROVE IsTail(t)
    BY <1>6, <2>1, <2>3 DEF IsTail
  <2>4. QED
    BY <2>1, <2>2, <2>3
<1>10. RenameInv'
  <2>1. \A b \in Client : cmd'[b].pc = "fs_lock" => cmd'[b].cfg \in Config /\ cmd'[b].cfg # cmd'[b].new
    BY <1>5, <1>6 DEF RenameInv
  <2>2. \A b \in Client : cmd'[b].pc \in Saving => status'[cmd'[b].job] = "cancelled"
    <3> SUFFICES ASSUME NEW b \in Client, cmd'[b].pc \in Saving PROVE status'[cmd'[b].job] = "cancelled"
      OBVIOUS
    <3>1. cmd'[b] = cmd[b]
      BY <1>5, <1>6 DEF Saving
    <3>2. cmd[b].job \in Job /\ status[cmd[b].job] = "cancelled"
      BY <3>1 DEF RenameInv, Saving, TypeInv, TaskInv, CmdInv
    <3>3. cmd[b].job \notin {next, next + 1}
      BY <1>2, <1>3, <3>2
    <3>4. QED
      BY <1>6, <3>1, <3>2, <3>3
  <2>3. \A b \in Client : cmd'[b].pc \in StagePc => cmd'[b].then = "stage_save"
    BY <1>5, <1>6, <1>7
  <2>4. \A b \in Client : cmd'[b].then = "stage_save" =>
           /\ cmd'[b].pc \in SweepPc \cup StagePc /\ fsLock' = b
           /\ \E t \in cmd'[b].own : IsTail(t)'
           /\ \A t \in cmd'[b].own : IsTail(t)' => desc'[t].new = cmd'[b].new
    <3> SUFFICES ASSUME NEW b \in Client, cmd'[b].then = "stage_save"
                 PROVE  /\ cmd'[b].pc \in SweepPc \cup StagePc /\ fsLock' = b
                        /\ \E t \in cmd'[b].own : IsTail(t)'
                        /\ \A t \in cmd'[b].own : IsTail(t)' => desc'[t].new = cmd'[b].new
      OBVIOUS
    <3>1. b = c
      BY <1>6, <1>7
    <3>2. \A t \in cmd'[b].own : IsTail(t)' => desc'[t].new = cmd'[b].new
      BY <1>4, <1>5, <1>6, <1>9, <3>1
    <3>3. QED
      BY <1>1, <1>5, <1>6, <1>9, <3>1, <3>2 DEF SweepPc
  <2>5. \A t \in Job : IsTail(t)' => /\ t < next' /\ desc'[t].cfg # desc'[t].new
                                     /\ desc'[t].cfg \in Config /\ desc'[t].new \in Config
    <3>1. next + 1 < next' /\ \A t \in Job : t < next => t < next'
      BY <1>1, <1>2
    <3>2. QED
      BY <1>2, <1>4, <1>6, <1>8, <1>9, <3>1 DEF RenameInv
  <2>6. \A s, t \in Job : /\ IsTail(s)' /\ Active(s)' /\ IsTail(t)' /\ Active(t)'
                          /\ desc'[s].cfg # desc'[t].cfg
                          => Touches(desc'[s]) \cap Touches(desc'[t]) = {}
    <3>1. ASSUME NEW s \in Job, IsTail(s), Active(s), desc[s].cfg # g
          PROVE  Touches(desc[s]) \cap Touches(d) = {}
      <4>1. s \in known /\ desc[s].type = "rename"
        BY <3>1 DEF Active, IsTail
      <4>2. QED
        BY <1>1, <1>4, <3>1, <4>1 DEF RenameLocked
    <3>2. \A s, t \in Job : /\ IsTail(s) /\ Active(s) /\ IsTail(t) /\ Active(t)
                            /\ desc[s].cfg # desc[t].cfg
                            => Touches(desc[s]) \cap Touches(desc[t]) = {}
      BY DEF RenameInv
    <3> SUFFICES ASSUME NEW s \in Job, NEW t \in Job, IsTail(s)', Active(s)', IsTail(t)', Active(t)',
                        desc'[s].cfg # desc'[t].cfg
                 PROVE  Touches(desc'[s]) \cap Touches(desc'[t]) = {}
      OBVIOUS
    <3>3. CASE IsTail(s) /\ IsTail(t)
      BY <1>8, <3>2, <3>3
    <3>4. CASE s = k /\ t = k
      BY <3>4
    <3>5. CASE s = k /\ IsTail(t)
      BY <1>4, <1>6, <1>8, <3>1, <3>5
    <3>6. CASE t = k /\ IsTail(s)
      BY <1>4, <1>6, <1>8, <3>1, <3>6
    <3>7. QED
      BY <1>9, <3>3, <3>4, <3>5, <3>6
  <2>7. \A t \in reverts' : IsTail(t)' /\ status'[t] \in Undone
    <3>1. \A t \in reverts : IsTail(t) /\ t \in Job /\ status[t] \in Undone
      BY <1>2 DEF RenameInv, Undone
    <3>2. QED
      BY <1>1, <1>6, <1>8, <3>1
  <2>8. fsLock' \notin Job
    BY <1>1, TaskAssumption DEF Proc
  <2>9. QED
    BY <2>1, <2>2, <2>3, <2>4, <2>5, <2>6, <2>7, <2>8 DEF RenameInv, Saving, Undone
<1>11. \A t \in Job : IsTail(t)' /\ Active(t)' /\ Staged(t)' => desc'[t].new \in files'
  <2>1. ~Staged(k)'
    BY <1>5, <1>6 DEF Staged
  <2>2. \A t \in Job : Staged(t)
    BY <1>7 DEF Staged
  <2>3. \A t \in Job : IsTail(t) /\ Active(t) => desc[t].new \in files
    BY <2>2 DEF FilesInv
  <2>4. ASSUME NEW t \in Job, IsTail(t)', Active(t)', Staged(t)' PROVE desc'[t].new \in files'
    <3>1. IsTail(t)
      BY <1>9, <2>1, <2>4
    <3>2. desc'[t] = desc[t]
      BY <1>8, <3>1
    <3>3. Active(t)
      BY <1>8, <2>4, <3>1
    <3>4. desc[t].new \in files
      BY <2>3, <3>1, <3>3
    <3>5. QED
      BY <1>1, <3>2, <3>4
  <2>5. QED
    BY <2>4
<1>12. \A b \in Client : cmd'[b].then = "stage_save" =>
          \A t \in cmd'[b].own : IsTail(t)' => Undoes(t)' \/ Active(t)'
  BY <1>5, <1>6, <1>7, <1>9
<1>13. ASSUME NEW m \in files'
       PROVE  \/ /\ \A t \in Job : IsTail(t)' => desc'[t].new # m
                 /\ \A b \in Client : cmd'[b].pc = "fs_lock" => cmd'[b].new # m
              \/ \E t \in Job : /\ IsTail(t)' /\ desc'[t].new = m
                                /\ Undoes(t)' \/ (Active(t)' /\ Staged(t)')
  <2>1. CASE /\ \A t \in Job : IsTail(t) => desc[t].new # m
             /\ \A b \in Client : cmd[b].pc = "fs_lock" => cmd[b].new # m
    <3>1. n # m
      BY <1>1, <2>1
    <3>2. \A t \in Job : IsTail(t)' => desc'[t].new # m
      BY <1>4, <1>6, <1>8, <1>9, <2>1, <3>1
    <3>3. \A b \in Client : cmd'[b].pc = "fs_lock" => cmd'[b].new # m
      BY <1>5, <1>6, <2>1
    <3>4. QED
      BY <3>2, <3>3
  <2>2. CASE \E t \in Job : /\ IsTail(t) /\ desc[t].new = m
                            /\ Undoes(t) \/ (Active(t) /\ Staged(t))
    BY <1>8, <2>2
  <2>3. QED
    BY <1>1, <2>1, <2>2 DEF FilesInv
<1>14. QED
  BY <1>10, <1>11, <1>12, <1>13 DEF FilesInv

\* One call stages at a time: it holds the lock of the files.
LEMMA OneStages ==
    ASSUME TypeInv, RenameInv, NEW c \in Client, cmd[c].pc = "stage_write"
    PROVE  /\ cmd[c].then = "stage_save" /\ fsLock = c
           /\ \A b \in Client \ {c} : cmd[b].then # "stage_save" /\ cmd[b].pc \notin StagePc
           /\ \A t \in cmd[c].own : t \in Job /\ (IsTail(t) => desc[t].new = cmd[c].new)
           /\ \E t \in cmd[c].own : IsTail(t)
<1>1. cmd[c].then = "stage_save" /\ cmd[c].own \subseteq Job
  BY DEF RenameInv, StagePc, TypeInv, TypeOK, TaskTypes, Cmd
<1>2. fsLock = c
  BY <1>1 DEF RenameInv
<1>3. \A b \in Client \ {c} : cmd[b].then # "stage_save" /\ cmd[b].pc \notin StagePc
  BY <1>2 DEF RenameInv
<1>4. QED
  BY <1>1, <1>2, <1>3 DEF RenameInv

\* The file is written for a chain that is active, or that somebody will undo.
LEMMA StageWrittenYaml ==
    ASSUME TypeInv, TypeInv', QueueInv, RenameInv, FilesInv, NEW c \in Client, StageWritten(c)
    PROVE  RenameInv' /\ FilesInv'
<1> DEFINE n == cmd[c].new
           r == Sweep(ActiveOf(n, cmd[c].own), "save", cmd[c].own)
<1>1. /\ cmd[c].pc = "stage_write" /\ files' = files \cup {n} /\ cmd' = [cmd EXCEPT ![c] = r]
      /\ UNCHANGED <<next, known, desc, status, fsLock, reverts>>
  BY DEF StageWritten, jobVars
<1>2. r.pc = "cancel" /\ r.then = "save" /\ r.own = cmd[c].own
  BY SweepRecord
<1>3. /\ cmd[c].then = "stage_save" /\ fsLock = c
      /\ \A b \in Client \ {c} : cmd[b].then # "stage_save" /\ cmd[b].pc \notin StagePc
      /\ \A t \in cmd[c].own : t \in Job /\ (IsTail(t) => desc[t].new = n)
      /\ \E t \in cmd[c].own : IsTail(t)
  BY <1>1, OneStages
<1> HIDE DEF r, n
<1>4. cmd'[c] = r /\ \A b \in Client \ {c} : cmd'[b] = cmd[b]
  BY <1>1 DEF TypeInv, TypeOK, TaskTypes
<1>5. \A t \in Job : /\ IsTail(t)' <=> IsTail(t)
                     /\ Active(t)' <=> Active(t)
                     /\ Undoes(t) => Undoes(t)'
                     /\ Staged(t)'
  <2>1. \A t \in Job : (IsTail(t)' <=> IsTail(t)) /\ (Active(t)' <=> Active(t))
    BY <1>1 DEF IsTail, Active
  <2>2. \A t \in Job : Undoes(t) => Undoes(t)'
    BY <1>1, <1>4 DEF Undoes
  <2>3. \A t \in Job : Staged(t)'
    BY <1>2, <1>3, <1>4 DEF Staged
  <2>4. QED
    BY <2>1, <2>2, <2>3
<1>6. RenameInv'
  <2>1. \A b \in Client : cmd'[b].pc = "fs_lock" => cmd'[b].cfg \in Config /\ cmd'[b].cfg # cmd'[b].new
    BY <1>2, <1>4 DEF RenameInv
  <2>2. \A b \in Client : cmd'[b].pc \in Saving => status'[cmd'[b].job] = "cancelled"
    BY <1>1, <1>2, <1>4 DEF RenameInv, Saving
  <2>3. \A b \in Client : cmd'[b].pc \notin StagePc /\ cmd'[b].then # "stage_save"
    BY <1>2, <1>3, <1>4 DEF StagePc
  <2>4. \A t \in Job : IsTail(t)' => /\ t < next' /\ desc'[t].cfg # desc'[t].new
                                     /\ desc'[t].cfg \in Config /\ desc'[t].new \in Config
    BY <1>1, <1>5 DEF RenameInv
  <2>5. \A s, t \in Job : /\ IsTail(s)' /\ Active(s)' /\ IsTail(t)' /\ Active(t)'
                          /\ desc'[s].cfg # desc'[t].cfg
                          => Touches(desc'[s]) \cap Touches(desc'[t]) = {}
    BY <1>1, <1>5 DEF RenameInv
  <2>6. \A t \in reverts' : IsTail(t)' /\ status'[t] \in Undone
    BY <1>1, <1>5 DEF RenameInv, Undone, TypeInv, TypeOK, FileTypes
  <2>7. fsLock' \notin Job
    BY <1>1, <1>3, TaskAssumption DEF Proc
  <2>8. QED
    BY <2>1, <2>2, <2>3, <2>4, <2>5, <2>6, <2>7 DEF RenameInv, Saving, Undone
<1>7. \A t \in Job : IsTail(t)' /\ Active(t)' /\ Staged(t)' => desc'[t].new \in files'
  <2>1. ASSUME NEW t \in Job, IsTail(t), Active(t) PROVE desc[t].new \in files'
    <3>1. CASE t \in cmd[c].own
      BY <1>1, <1>3, <2>1, <3>1
    <3>2. CASE t \notin cmd[c].own
      <4>1. Staged(t)
        BY <1>3, <3>2 DEF Staged
      <4>2. QED
        BY <1>1, <2>1, <4>1 DEF FilesInv
    <3>3. QED
      BY <3>1, <3>2
  <2>2. QED
    BY <1>1, <1>5, <2>1
<1>8. ASSUME NEW m \in files'
      PROVE  \/ /\ \A t \in Job : IsTail(t)' => desc'[t].new # m
                /\ \A b \in Client : cmd'[b].pc = "fs_lock" => cmd'[b].new # m
             \/ \E t \in Job : /\ IsTail(t)' /\ desc'[t].new = m
                               /\ Undoes(t)' \/ (Active(t)' /\ Staged(t)')
  <2>1. CASE m = n
    <3>1. PICK t \in cmd[c].own : IsTail(t)
      BY <1>3
    <3>2. t \in Job /\ desc[t].new = n /\ (Undoes(t) \/ Active(t))
      BY <1>3, <3>1 DEF FilesInv
    <3>3. QED
      BY <1>1, <1>5, <2>1, <3>1, <3>2
  <2>2. CASE m \in files
    <3>1. CASE /\ \A t \in Job : IsTail(t) => desc[t].new # m
               /\ \A b \in Client : cmd[b].pc = "fs_lock" => cmd[b].new # m
      BY <1>1, <1>2, <1>4, <1>5, <3>1
    <3>2. CASE \E t \in Job : /\ IsTail(t) /\ desc[t].new = m
                              /\ Undoes(t) \/ (Active(t) /\ Staged(t))
      BY <1>1, <1>5, <3>2
    <3>3. QED
      BY <2>2, <3>1, <3>2 DEF FilesInv
  <2>3. QED
    BY <1>1, <1>8, <2>1, <2>2
<1>9. \A b \in Client : cmd'[b].then # "stage_save"
  BY <1>2, <1>3, <1>4
<1>10. QED
  BY <1>6, <1>7, <1>8, <1>9 DEF FilesInv

\* A chain whose file could not be written leaves the map, and no file.
LEMMA StageFailsYaml ==
    ASSUME TypeInv, TypeInv', QueueInv, RenameInv, FilesInv, NEW c \in Client, StageFails(c)
    PROVE  RenameInv' /\ FilesInv'
<1>1. /\ cmd[c].pc = "stage_write" /\ files' = files /\ cmd' = [cmd EXCEPT ![c] = IdleCmd]
      /\ known' = known \ cmd[c].own /\ fsLock' = NoOne
      /\ UNCHANGED <<next, desc, status, reverts>>
  BY DEF StageFails
<1>2. IdleCmd.pc = "idle" /\ IdleCmd.then = "idle" /\ IdleCmd.own = {}
  BY DEF IdleCmd
<1>3. /\ cmd[c].then = "stage_save" /\ fsLock = c
      /\ \A b \in Client \ {c} : cmd[b].then # "stage_save" /\ cmd[b].pc \notin StagePc
  BY <1>1, OneStages
<1>4. cmd'[c] = IdleCmd /\ \A b \in Client \ {c} : cmd'[b] = cmd[b]
  BY <1>1 DEF TypeInv, TypeOK, TaskTypes
<1>5. \A t \in Job : /\ IsTail(t)' <=> IsTail(t)
                     /\ Active(t)' <=> Active(t) /\ t \notin cmd[c].own
                     /\ Undoes(t) => Undoes(t)'
                     /\ Staged(t)'
                     /\ Staged(t) <=> t \notin cmd[c].own
  <2>1. \A t \in Job : (IsTail(t)' <=> IsTail(t)) /\ (Active(t)' <=> Active(t) /\ t \notin cmd[c].own)
    BY <1>1 DEF IsTail, Active
  <2>2. \A t \in Job : Undoes(t) => Undoes(t)'
    BY <1>1, <1>4 DEF Undoes
  <2>3. \A t \in Job : Staged(t)' /\ (Staged(t) <=> t \notin cmd[c].own)
    BY <1>2, <1>3, <1>4 DEF Staged
  <2>4. QED
    BY <2>1, <2>2, <2>3
<1>6. RenameInv'
  <2>1. \A b \in Client : cmd'[b].pc = "fs_lock" => cmd'[b].cfg \in Config /\ cmd'[b].cfg # cmd'[b].new
    BY <1>2, <1>4 DEF RenameInv
  <2>2. \A b \in Client : cmd'[b].pc \in Saving => status'[cmd'[b].job] = "cancelled"
    BY <1>1, <1>2, <1>4 DEF RenameInv, Saving
  <2>3. \A b \in Client : cmd'[b].pc \notin StagePc /\ cmd'[b].then # "stage_save"
    BY <1>2, <1>3, <1>4 DEF StagePc
  <2>4. \A t \in Job : IsTail(t)' => /\ t < next' /\ desc'[t].cfg # desc'[t].new
                                     /\ desc'[t].cfg \in Config /\ desc'[t].new \in Config
    BY <1>1, <1>5 DEF RenameInv
  <2>5. \A s, t \in Job : /\ IsTail(s)' /\ Active(s)' /\ IsTail(t)' /\ Active(t)'
                          /\ desc'[s].cfg # desc'[t].cfg
                          => Touches(desc'[s]) \cap Touches(desc'[t]) = {}
    BY <1>1, <1>5 DEF RenameInv
  <2>6. \A t \in reverts' : IsTail(t)' /\ status'[t] \in Undone
    BY <1>1, <1>5 DEF RenameInv, Undone, TypeInv, TypeOK, FileTypes
  <2>7. fsLock' \notin Job
    BY <1>1, TaskAssumption
  <2>8. QED
    BY <2>1, <2>2, <2>3, <2>4, <2>5, <2>6, <2>7 DEF RenameInv, Saving, Undone
<1>7. \A t \in Job : IsTail(t)' /\ Active(t)' /\ Staged(t)' => desc'[t].new \in files'
  BY <1>1, <1>5 DEF FilesInv
<1>8. ASSUME NEW m \in files'
      PROVE  \/ /\ \A t \in Job : IsTail(t)' => desc'[t].new # m
                /\ \A b \in Client : cmd'[b].pc = "fs_lock" => cmd'[b].new # m
             \/ \E t \in Job : /\ IsTail(t)' /\ desc'[t].new = m
                               /\ Undoes(t)' \/ (Active(t)' /\ Staged(t)')
  <2>1. CASE /\ \A t \in Job : IsTail(t) => desc[t].new # m
             /\ \A b \in Client : cmd[b].pc = "fs_lock" => cmd[b].new # m
    BY <1>1, <1>2, <1>4, <1>5, <2>1
  <2>2. CASE \E t \in Job : /\ IsTail(t) /\ desc[t].new = m
                            /\ Undoes(t) \/ (Active(t) /\ Staged(t))
    BY <1>1, <1>5, <2>2
  <2>3. QED
    BY <1>1, <1>8, <2>1, <2>2 DEF FilesInv
<1>9. \A b \in Client : cmd'[b].then # "stage_save"
  BY <1>2, <1>3, <1>4
<1>10. QED
  BY <1>6, <1>7, <1>8, <1>9 DEF FilesInv

\* A revert leaves the file to a chain that owns it now, or takes the lock and removes it.
LEMMA RevertYaml ==
    ASSUME TypeInv, QueueInv, RenameInv, FilesInv, NEW x \in Job, RevertStart(x) \/ RevertDone(x)
    PROVE  RenameInv' /\ FilesInv'
<1>1. UNCHANGED <<next, known, desc, status, cmd>>
  BY DEF RevertStart, RevertDone, jobVars
<1>2. /\ reverts' = reverts \/ reverts' = reverts \ {x}
      /\ files' = files \/ (files' = files \ {desc[x].new} /\ fsLock = x)
      /\ fsLock \in {NoOne, x}
      /\ fsLock' = NoOne \/ (fsLock' = x /\ reverts' = reverts /\ x \in reverts /\ ~TargetOwned(x))
  BY DEF RevertStart, RevertDone
<1>3. \A b \in Client : cmd[b].then # "stage_save" /\ cmd[b].pc \notin StagePc
  <2>1. fsLock \notin Client
    BY <1>2, TaskAssumption DEF Proc
  <2>2. QED
    BY <2>1 DEF RenameInv
<1>4. /\ \A t \in Job : Staged(t) /\ Staged(t)'
      /\ reverts \subseteq Job /\ known \subseteq Job
  BY <1>1, <1>3 DEF Staged, TypeInv, TypeOK, FileTypes, JobTypes
<1>5. \A t \in Job : /\ IsTail(t)' <=> IsTail(t)
                     /\ Active(t)' <=> Active(t)
                     /\ t # x /\ Undoes(t) => Undoes(t)'
  <2>1. \A t \in Job : (IsTail(t)' <=> IsTail(t)) /\ (Active(t)' <=> Active(t))
    BY <1>1 DEF IsTail, Active
  <2>2. \A t \in Job : t # x /\ Undoes(t) => Undoes(t)'
    BY <1>1, <1>2 DEF Undoes
  <2>3. QED
    BY <2>1, <2>2
<1>6. RenameInv'
  <2>1. \A b \in Client : cmd'[b].pc = "fs_lock" => cmd'[b].cfg \in Config /\ cmd'[b].cfg # cmd'[b].new
    BY <1>1 DEF RenameInv
  <2>2. \A b \in Client : cmd'[b].pc \in Saving => status'[cmd'[b].job] = "cancelled"
    BY <1>1 DEF RenameInv, Saving
  <2>3. \A b \in Client : cmd'[b].pc \notin StagePc /\ cmd'[b].then # "stage_save"
    BY <1>1, <1>3
  <2>4. \A t \in Job : IsTail(t)' => /\ t < next' /\ desc'[t].cfg # desc'[t].new
                                     /\ desc'[t].cfg \in Config /\ desc'[t].new \in Config
    BY <1>1, <1>5 DEF RenameInv
  <2>5. \A s, t \in Job : /\ IsTail(s)' /\ Active(s)' /\ IsTail(t)' /\ Active(t)'
                          /\ desc'[s].cfg # desc'[t].cfg
                          => Touches(desc'[s]) \cap Touches(desc'[t]) = {}
    BY <1>1, <1>5 DEF RenameInv
  <2>6. \A t \in reverts' : IsTail(t)' /\ status'[t] \in Undone
    BY <1>1, <1>2, <1>4, <1>5 DEF RenameInv, Undone
  <2>7. fsLock' \in Job => fsLock' \in reverts' /\ ~TargetOwned(fsLock)'
    <3>1. CASE fsLock' = NoOne
      BY <3>1, TaskAssumption
    <3>2. CASE fsLock' = x /\ x \in reverts' /\ ~TargetOwned(x)
      <4>1. TargetOwned(x)' <=> TargetOwned(x)
        BY <1>1 DEF TargetOwned, Active, IsTail
      <4>2. TargetOwned(fsLock)' <=> TargetOwned(x)'
        BY <3>2 DEF TargetOwned, Active, IsTail
      <4>3. QED
        BY <3>2, <4>1, <4>2
    <3>3. QED
      BY <1>2, <3>1, <3>2
  <2>8. QED
    BY <2>1, <2>2, <2>3, <2>4, <2>5, <2>6, <2>7 DEF RenameInv, Saving, Undone
<1>7. \A t \in Job : IsTail(t)' /\ Active(t)' /\ Staged(t)' => desc'[t].new \in files'
  <2>1. ASSUME NEW t \in Job, IsTail(t), Active(t) PROVE desc[t].new \in files'
    <3>1. desc[t].new \in files
      BY <1>4, <2>1 DEF FilesInv
    <3>2. CASE fsLock = x
      <4>1. x \in reverts /\ ~TargetOwned(x)
        BY <3>2 DEF RenameInv
      <4>2. status[x] \in Undone
        BY <4>1 DEF RenameInv, Undone
      <4>3. t # x /\ t \in known
        BY <2>1, <4>2 DEF Active, Undone
      <4>4. desc[t].new # desc[x].new
        BY <2>1, <4>1, <4>3 DEF TargetOwned
      <4>5. QED
        BY <1>2, <3>1, <4>4
    <3>3. CASE fsLock # x
      BY <1>2, <3>1, <3>3
    <3>4. QED
      BY <3>2, <3>3
  <2>2. QED
    BY <1>1, <1>5, <2>1
<1>8. ASSUME NEW m \in files'
      PROVE  \/ /\ \A t \in Job : IsTail(t)' => desc'[t].new # m
                /\ \A b \in Client : cmd'[b].pc = "fs_lock" => cmd'[b].new # m
             \/ \E t \in Job : /\ IsTail(t)' /\ desc'[t].new = m
                               /\ Undoes(t)' \/ (Active(t)' /\ Staged(t)')
  <2>1. m \in files
    BY <1>2, <1>8
  <2>2. CASE /\ \A t \in Job : IsTail(t) => desc[t].new # m
             /\ \A b \in Client : cmd[b].pc = "fs_lock" => cmd[b].new # m
    BY <1>1, <1>5, <2>2
  <2>3. ASSUME NEW t \in Job, IsTail(t), desc[t].new = m, Undoes(t) \/ Active(t)
        PROVE  \E o \in Job : /\ IsTail(o) /\ desc[o].new = m
                              /\ Undoes(o)' \/ Active(o)
    <3>1. CASE t # x \/ Active(t) \/ reverts' = reverts
      <4>1. Undoes(t) /\ reverts' = reverts => Undoes(t)'
        BY <1>1 DEF Undoes
      <4>2. QED
        BY <1>5, <2>3, <3>1, <4>1
    <3>2. CASE t = x /\ RevertStart(x) /\ TargetOwned(x)
      <4>1. PICK o \in known \ {x} : Active(o) /\ IsTail(o) /\ desc[o].new = desc[x].new
        BY <3>2 DEF TargetOwned
      <4>2. QED
        BY <1>4, <2>3, <3>2, <4>1
    <3>3. CASE t = x /\ RevertDone(x)
      BY <1>8, <2>3, <3>3 DEF RevertDone
    <3>4. CASE RevertStart(x) /\ ~TargetOwned(x)
      BY <3>1, <3>4 DEF RevertStart
    <3>5. QED
      BY <3>1, <3>2, <3>3, <3>4
  <2>4. CASE \E t \in Job : /\ IsTail(t) /\ desc[t].new = m
                            /\ Undoes(t) \/ (Active(t) /\ Staged(t))
    BY <1>1, <1>4, <1>5, <2>3, <2>4
  <2>5. QED
    BY <2>1, <2>2, <2>4 DEF FilesInv
<1>9. \A b \in Client : cmd'[b].then # "stage_save"
  BY <1>1, <1>3
<1>10. QED
  BY <1>6, <1>7, <1>8, <1>9 DEF FilesInv

-----------------------------------------------------------------------------
LEMMA NextYaml ==
    ASSUME LiveKept, TypeInv, TypeInv', QueueInv, EndsInv, KnownInv, YamlInv, [Next]_vars
    PROVE  YamlInv'
<1> SUFFICES ASSUME restarts' = 0 PROVE RenameInv' /\ FilesInv'
  BY DEF YamlInv
<1>1. ~Restart
  <2>1. restarts \in Nat
    BY BoundsAssumption DEF TypeInv, TypeOK, HistTypes
  <2>2. QED
    BY <2>1 DEF Restart
<1>2. restarts' = restarts
  BY <1>1, StepRestarts
<1>3. RenameInv /\ FilesInv
  BY <1>2 DEF YamlInv
<1>4. Moves
  BY <1>1, NextMoves
<1>5. OverStays
  BY <1>2, NextEnds DEF OverStays
<1>6. ChainsGoOn => RenameInv' /\ FilesInv'
  BY <1>3, <1>4, <1>5, ChainsKept
<1>7. ASSUME NEW c \in Client, Request(c) PROVE RenameInv' /\ FilesInv'
  <2>1. CASE \/ \E g \in Config : \/ Compile(c, g) \/ Upload(c, g) \/ Install(c, g) \/ Clean(c, g)
                                  \/ AnalyzeMemory(c, g)
             \/ ResetBuildEnv(c)
    BY <1>3, <1>6, <2>1, CreationGoesOn
  <2>2. CASE \E g, n \in Config : Rename(c, g, n)
    BY <1>3, <2>2, RenameYaml
  <2>3. CASE (\E j \in Job : Cancel(c, j)) \/ (\E st \in ClearStatuses : Clear(c, st))
    BY <1>3, <1>6, <2>3, CallKeepsChains
  <2>4. QED
    BY <1>7, <2>1, <2>2, <2>3 DEF Request
<1>8. ASSUME NEW c \in Client, ClientStep(c) PROVE RenameInv' /\ FilesInv'
  <2>1. CASE RenameLock(c) /\ ~UNCHANGED jobVars
    BY <1>3, <2>1, RenameLockYaml
  <2>2. CASE \/ StageSaved(c) \/ CancelRunning(c) \/ CancelMissed(c) \/ Killed(c)
             \/ SweepDone(c) \/ ResetSwept(c) \/ CommitSaved(c) \/ (RenameLock(c) /\ UNCHANGED jobVars)
    BY <1>3, <1>6, <2>2, CallKeepsChains
  <2>3. CASE CancelQueued(c) \/ CancelSaved(c) \/ CancelSavedAgain(c)
    BY <1>3, <1>6, <2>3, CancelGoesOn
  <2>4. CASE StageWritten(c)
    BY <1>3, <2>4, StageWrittenYaml
  <2>5. CASE StageFails(c)
    BY <1>3, <2>5, StageFailsYaml
  <2>6. QED
    BY <1>8, <2>1, <2>2, <2>3, <2>4, <2>5 DEF ClientStep
<1>9. ASSUME NEW w \in Worker, WorkerStep(w) PROVE RenameInv' /\ FilesInv'
  <2>1. CASE \/ PrepFails(w) \/ EpilogueFails(w) \/ EpilogueDone(w)
             \/ \E ok, offline \in BOOLEAN : Exit(w, ok, offline)
    BY <1>3, <1>4, <1>6, <2>1, EndsGoOn
  <2>2. CASE \/ Take(w) \/ Recheck(w) \/ Begun(w) \/ Spawn(w) \/ ExitToEpilogue(w) \/ Ended(w)
    BY <1>3, <1>6, <2>2, RestGoesOn
  <2>3. QED
    BY <1>9, <2>1, <2>2 DEF WorkerStep
<1>10. CASE SaveStep \/ UNCHANGED vars
  BY <1>3, <1>6, <1>10, RestGoesOn
<1>11. CASE RevertStep
  BY <1>3, <1>11, RevertYaml DEF RevertStep
<1>12. QED
  BY <1>1, <1>7, <1>8, <1>9, <1>10, <1>11 DEF Next

LEMMA InitYaml == Init => YamlInv
<1> SUFFICES ASSUME Init PROVE RenameInv /\ FilesInv
  BY DEF YamlInv
<1>1. \A t \in Job : ~IsTail(t)
  BY DEF Init, IsTail, NoDesc
<1>2. \A c \in Client : cmd[c].pc = "idle" /\ cmd[c].then = "idle"
  BY DEF Init, IdleCmd
<1>3. reverts = {} /\ fsLock \notin Job
  BY TaskAssumption DEF Init
<1>4. RenameInv
  BY <1>1, <1>2, <1>3 DEF RenameInv, StagePc
<1>5. FilesInv
  BY <1>1, <1>2 DEF FilesInv
<1>6. QED
  BY <1>4, <1>5

\* The files and the chains agree in every reachable state before the first restart.
LEMMA YamlHolds == WholeSnapshots /\ LiveKept => (Spec => []YamlInv)
<1>1. SUFFICES ASSUME WholeSnapshots, LiveKept PROVE Spec => []YamlInv
  OBVIOUS
<1>2. Spec => [](TypeInv /\ QueueInv)
  BY <1>1, InvHolds
<1> DEFINE Inv == EndsInv /\ KnownInv /\ YamlInv
<1>3. Init => Inv
  BY InitEnds, InitYaml DEF Init, KnownInv, Needed
<1>4. TypeInv /\ QueueInv /\ (TypeInv /\ QueueInv)' /\ Inv /\ [Next]_vars => Inv'
  BY <1>1, NextEnds, NextKnownInv, NextYaml
<1>5. QED
  BY <1>2, <1>3, <1>4, PTL DEF Spec

\* The file under the new name is there from the moment it was written for as long as its chain is active: no
\* revert of an older chain to the name removes it (revert_rename looks for an owner under the lock), and no
\* other chain's swap does (check_rename_lock).
THEOREM RenameKeepsYamlHolds == WholeSnapshots /\ LiveKept => (Spec => []RenameKeepsYaml)
<1>1. YamlInv /\ TypeInv => RenameKeepsYaml
  BY DEF YamlInv, FilesInv, RenameKeepsYaml, TypeInv, TypeOK, JobTypes
<1>2. WholeSnapshots => (Spec => [](TypeInv /\ QueueInv))
  BY InvHolds
<1>3. QED
  BY <1>1, <1>2, YamlHolds, PTL

\* A rename that failed or was cancelled, wherever its call or its jobs were at that moment, has left no file under
\* the new name once all is quiet, unless a chain to that name lives or went through (on_job_terminal).
THEOREM FailedRenameUndoneHolds == WholeSnapshots /\ LiveKept => (Spec => []FailedRenameUndone)
<1>1. YamlInv => FailedRenameUndone
  <2> SUFFICES ASSUME YamlInv, restarts = 0, reverts = {}, \A c \in Client : cmd[c] = IdleCmd,
                      NEW t \in Job, IsTail(t),
                      \A o \in Job : IsTail(o) /\ desc[o].new = desc[t].new => ~Active(o) /\ status[o] # "completed",
                      desc[t].new \in files
               PROVE  FALSE
    BY DEF FailedRenameUndone
  <2>1. PICK o \in Job : IsTail(o) /\ desc[o].new = desc[t].new /\ (Undoes(o) \/ Active(o))
    BY DEF YamlInv, FilesInv
  <2>2. Undoes(o) /\ status[o] # "completed"
    BY <2>1
  <2>3. QED
    BY <2>2 DEF Undoes, IdleCmd
<1>2. QED
  BY <1>1, YamlHolds, PTL
=============================================================================
