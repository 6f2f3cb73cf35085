------------------------- MODULE FirmwareQueueSafety -------------------------
(***************************************************************************)
(* QueueInv is an invariant of FirmwareQueue, and the safety properties    *)
(* that follow from it, for every number of jobs, calls, workers and       *)
(* restarts.  Where a process may restart, a snapshot must have been       *)
(* serialised in one piece: the run torn_save shows what happens if not.   *)
(***************************************************************************)
EXTENDS FirmwareQueueProofs, FirmwareQueueInvariant, FiniteSetTheorems

-----------------------------------------------------------------------------
(* Lanes as sets of jobs *)

LEMMA InTyped == \A q : In(q) \subseteq Job
BY DEF In

\* A job that is on no lane and is appended to one.
LEMMA InAppend ==
    ASSUME NEW q \in [Lane -> Seq(Job)], NEW l0 \in Lane, NEW j \in Job,
           j \notin In(q), Distinct(q)
    PROVE  LET r == [q EXCEPT ![l0] = Append(@, j)]
           IN  In(r) = In(q) \cup {j} /\ Distinct(r)
<1> DEFINE r == [q EXCEPT ![l0] = Append(@, j)]
<1>1. /\ r[l0] = Append(q[l0], j) /\ q[l0] \in Seq(Job)
      /\ \A l \in Lane : l # l0 => r[l] = q[l]
  OBVIOUS
<1>2. /\ Len(q[l0]) \in Nat /\ Len(r[l0]) = Len(q[l0]) + 1 /\ r[l0][Len(q[l0]) + 1] = j
      /\ \A i \in 1..Len(q[l0]) : r[l0][i] = q[l0][i]
  BY <1>1
<1>3. \A l \in Lane : \A i \in 1..Len(q[l]) : q[l][i] # j /\ q[l][i] \in Job
  BY DEF In
<1>4. In(r) = In(q) \cup {j}
  <2>1. \A k \in In(r) : k \in In(q) \cup {j}
    <3>1. TAKE k \in In(r)
    <3>2. PICK l \in Lane : \E i \in 1..Len(r[l]) : r[l][i] = k
      BY <3>1 DEF In
    <3>2i. PICK i \in 1..Len(r[l]) : r[l][i] = k
      BY <3>2
    <3>3. CASE l = l0
      <4>1. CASE i = Len(q[l0]) + 1
        BY <3>2i, <3>3, <4>1, <1>2
      <4>2. CASE i # Len(q[l0]) + 1
        <5>1. i \in 1..Len(q[l0])
          BY <3>2i, <3>3, <4>2, <1>2
        <5>2. q[l0][i] = k /\ k \in Job
          BY <5>1, <3>2i, <3>3, <1>2, <1>3
        <5>3. QED
          BY <5>1, <5>2 DEF In
      <4>3. QED
        BY <4>1, <4>2
    <3>4. CASE l # l0
      BY <3>1, <3>2i, <3>4, <1>1 DEF In
    <3>5. QED
      BY <3>3, <3>4
  <2>2. j \in In(r)
    <3>1. Len(q[l0]) + 1 \in 1..Len(r[l0])
      BY <1>2
    <3>2. QED
      BY <3>1, <1>2 DEF In
  <2>3. \A k \in In(q) : k \in In(r)
    <3>1. TAKE k \in In(q)
    <3>2. PICK l \in Lane : \E i \in 1..Len(q[l]) : q[l][i] = k
      BY <3>1 DEF In
    <3>2i. PICK i \in 1..Len(q[l]) : q[l][i] = k
      BY <3>2
    <3>3. i \in 1..Len(r[l]) /\ r[l][i] = k
      BY <3>2i, <1>1, <1>2
    <3>4. QED
      BY <3>1, <3>3 DEF In
  <2>4. QED
    BY <2>1, <2>2, <2>3
<1>5. Distinct(r)
  <2>1. SUFFICES ASSUME NEW l \in Lane, NEW m \in Lane, NEW i \in 1..Len(r[l]),
                        NEW k \in 1..Len(r[m]), r[l][i] = r[m][k]
                 PROVE  l = m /\ i = k
    BY DEF Distinct
  <2>2. CASE i \in 1..Len(q[l]) /\ k \in 1..Len(q[m])
    <3>1. r[l][i] = q[l][i] /\ r[m][k] = q[m][k]
      BY <1>1, <1>2, <2>2
    <3>2. QED
      BY <2>1, <2>2, <3>1 DEF Distinct
  <2>3. CASE i \notin 1..Len(q[l])
    <3>1. l = l0 /\ i = Len(q[l0]) + 1 /\ r[l][i] = j
      BY <1>1, <1>2, <2>3
    <3>2. k \notin 1..Len(q[m])
      BY <1>1, <1>2, <1>3, <2>1, <3>1
    <3>3. m = l0 /\ k = Len(q[l0]) + 1
      BY <1>1, <1>2, <3>2
    <3>4. QED
      BY <3>1, <3>3
  <2>4. CASE k \notin 1..Len(q[m])
    <3>1. m = l0 /\ k = Len(q[l0]) + 1 /\ r[m][k] = j
      BY <1>1, <1>2, <2>4
    <3>2. i \notin 1..Len(q[l])
      BY <1>1, <1>2, <1>3, <2>1, <3>1
    <3>3. l = l0 /\ i = Len(q[l0]) + 1
      BY <1>1, <1>2, <3>2
    <3>4. QED
      BY <3>1, <3>3
  <2>5. QED
    BY <2>2, <2>3, <2>4
<1>6. QED
  BY <1>4, <1>5

\* The head of a lane is taken.
LEMMA InTail ==
    ASSUME NEW q \in [Lane -> Seq(Job)], NEW l0 \in Lane, q[l0] # <<>>, Distinct(q)
    PROVE  LET r == [q EXCEPT ![l0] = Tail(@)]
           IN  /\ Head(q[l0]) \in In(q) /\ In(r) = In(q) \ {Head(q[l0])}
               /\ Distinct(r)
<1> DEFINE r == [q EXCEPT ![l0] = Tail(@)]
           h == Head(q[l0])
<1>1. /\ r[l0] = Tail(q[l0]) /\ q[l0] \in Seq(Job)
      /\ \A l \in Lane : l # l0 => r[l] = q[l]
  OBVIOUS
<1>2. /\ Len(q[l0]) \in Nat \ {0} /\ Len(r[l0]) = Len(q[l0]) - 1
      /\ h = q[l0][1] /\ h \in Job /\ 1 \in 1..Len(q[l0])
      /\ \A i \in 1..(Len(q[l0]) - 1) : r[l0][i] = q[l0][i + 1] /\ i + 1 \in 1..Len(q[l0])
  BY <1>1
<1>3. \A l \in Lane : \A i \in 1..Len(r[l]) :
        \E k \in 1..Len(q[l]) : r[l][i] = q[l][k] /\ k = (IF l = l0 THEN i + 1 ELSE i)
  BY <1>1, <1>2
<1>4. Distinct(r)
  <2>1. SUFFICES ASSUME NEW l \in Lane, NEW m \in Lane, NEW i \in 1..Len(r[l]),
                        NEW k \in 1..Len(r[m]), r[l][i] = r[m][k]
                 PROVE  l = m /\ i = k
    BY DEF Distinct
  <2>2. PICK a \in 1..Len(q[l]) : r[l][i] = q[l][a] /\ a = (IF l = l0 THEN i + 1 ELSE i)
    BY <1>3
  <2>3. PICK b \in 1..Len(q[m]) : r[m][k] = q[m][b] /\ b = (IF m = l0 THEN k + 1 ELSE k)
    BY <1>3
  <2>4. l = m /\ a = b
    BY <2>1, <2>2, <2>3 DEF Distinct
  <2>5. QED
    BY <2>2, <2>3, <2>4
<1>5. h \in In(q)
  BY <1>2 DEF In
<1>6. \A k \in In(r) : k \in In(q) \ {h}
  <2>1. TAKE k \in In(r)
  <2>2. PICK l \in Lane : \E i \in 1..Len(r[l]) : r[l][i] = k
    BY <2>1 DEF In
  <2>2i. PICK i \in 1..Len(r[l]) : r[l][i] = k
    BY <2>2
  <2>3. PICK a \in 1..Len(q[l]) : r[l][i] = q[l][a] /\ a = (IF l = l0 THEN i + 1 ELSE i)
    BY <1>3
  <2>4. k \in In(q)
    BY <2>1, <2>2i, <2>3 DEF In
  <2>5. l = l0 => a # 1
    BY <2>3
  <2>6. q[l][a] # q[l0][1]
    BY <2>3, <2>5, <1>2 DEF Distinct
  <2>7. QED
    BY <2>2i, <2>3, <2>4, <2>6, <1>2
<1>7. \A k \in In(q) \ {h} : k \in In(r)
  <2>1. TAKE k \in In(q) \ {h}
  <2>2. PICK l \in Lane : \E i \in 1..Len(q[l]) : q[l][i] = k
    BY <2>1 DEF In
  <2>2i. PICK i \in 1..Len(q[l]) : q[l][i] = k
    BY <2>2
  <2>3. CASE l = l0
    <3>1. i # 1
      BY <2>1, <2>2i, <2>3, <1>2
    <3>2. i - 1 \in 1..Len(r[l0]) /\ r[l0][i - 1] = k
      BY <2>2i, <2>3, <3>1, <1>2
    <3>3. QED
      BY <2>1, <3>2 DEF In
  <2>4. CASE l # l0
    BY <2>1, <2>2i, <2>4, <1>1 DEF In
  <2>5. QED
    BY <2>3, <2>4
<1>8. QED
  BY <1>4, <1>5, <1>6, <1>7

-----------------------------------------------------------------------------
(* Steps that place nothing *)

\* Waking the gate moves no job and takes nobody out of a slot.
LEMMA WokenPc ==
    ASSUME NEW pc \in [Worker -> WorkerPc], NEW w \in Worker
    PROVE  /\ Woken(pc)[w] = pc[w] \/ (pc[w] = "gate" /\ Woken(pc)[w] = "woken")
BY DEF Woken

LEMMA DepTyped ==
    ASSUME TypeInv, NEW d \in Job
    PROVE  desc[d].dep \in Job \cup {NoJob}
BY DEF TypeInv, TypeOK, JobTypes, JobDesc

\* A step of a call, of clear or of a revert that creates and places no job: jobs leave
\* the map, queued ones may be cancelled, workers may be woken, one call moves on.
LEMMA QuietStep ==
    ASSUME TypeInv, TypeInv', QueueInv,
           UNCHANGED <<next, desc, released, queue, wjob, disk>>,
           wpc' = wpc \/ wpc' = Woken(wpc),
           known' \subseteq known, left' \subseteq left, blob' = blob,
           \A j \in Job : status'[j] = status[j]
                          \/ (status[j] = "queued" /\ status'[j] = "cancelled"),
           \A c \in Client : /\ cmd'[c].own \subseteq cmd[c].own
                             /\ Staging(cmd'[c]) => /\ Staging(cmd[c])
                                                    /\ cmd'[c].then = cmd[c].then
                                                    /\ cmd'[c].own = cmd[c].own
    PROVE  QueueInv'
<1>1. \A j : Placed(j)' <=> Placed(j)
  BY DEF Placed, In
<1>2. \A w \in Worker : wpc'[w] = wpc[w] \/ (wpc[w] = "gate" /\ wpc'[w] = "woken")
  BY WokenPc DEF TypeInv, TypeOK, WorkTypes
<1>3. FreshInv'
  BY <1>1 DEF QueueInv, FreshInv
<1>4. PlaceInv'
  BY <1>2 DEF QueueInv, PlaceInv, Distinct, In
<1>5. StatusInv'
  <2>1. \A j \in In(queue)' : status'[j] \in Idling
    BY DEF QueueInv, StatusInv, In, Idling
  <2>2. \A w \in Worker : wpc[w] # "idle" => wjob[w] \in Job
    BY DEF TypeInv, TaskInv
  <2>3. \A w \in Worker : wpc'[w] \in {"gate", "woken"} => status'[wjob'[w]] \in Idling
    BY <1>2, <2>2 DEF QueueInv, StatusInv, Idling
  <2>4. \A w \in Worker : wpc'[w] \in SlotPc => status'[wjob'[w]] = "running"
    BY <1>2, <2>2 DEF QueueInv, StatusInv, SlotPc
  <2>5. \A j \in Job : status'[j] = "running" => OnLane(j)'
    <3>1. TAKE j \in Job
    <3>2. HAVE status'[j] = "running"
    <3>3. OnLane(j)
      BY <3>2 DEF QueueInv, StatusInv
    <3>4. QED
      BY <3>3, <1>2 DEF OnLane
  <2>6. QED
    BY <2>1, <2>3, <2>4, <2>5 DEF StatusInv
<1>6. ChainInv'
  <2>1. \A d \in Job : desc[d].dep # NoJob => desc[d].dep \in Job
    BY DepTyped
  <2>2. QED
    BY <1>1, <2>1 DEF QueueInv, ChainInv, Past
<1>7. StageInv'
  <2>1. \A c \in Client : cmd[c].own \subseteq Job
    BY DEF TypeInv, TypeOK, TaskTypes, Cmd
  <2>2. QED
    BY <1>1, <2>1 DEF QueueInv, StageInv, Idling
<1>8. DiskInv'
  BY DEF QueueInv, DiskInv
<1>9. QED
  BY <1>3, <1>4, <1>5, <1>6, <1>7, <1>8 DEF QueueInv

\* The same for a step that changes the record of one call.
LEMMA QuietCall ==
    ASSUME TypeInv, TypeInv', QueueInv, NEW c \in Client, NEW r,
           UNCHANGED <<next, desc, released, queue, wjob, disk, left, blob>>,
           wpc' = wpc \/ wpc' = Woken(wpc),
           known' \subseteq known,
           \A j \in Job : status'[j] = status[j]
                          \/ (status[j] = "queued" /\ status'[j] = "cancelled"),
           cmd' = [cmd EXCEPT ![c] = r],
           r.own \subseteq cmd[c].own,
           Staging(r) => Staging(cmd[c]) /\ r.then = cmd[c].then /\ r.own = cmd[c].own
    PROVE  QueueInv'
<1>1. \A b \in Client : cmd'[b] = IF b = c THEN r ELSE cmd[b]
  BY DEF TypeInv, TypeOK, TaskTypes
<1>2. \A b \in Client : /\ cmd'[b].own \subseteq cmd[b].own
                        /\ Staging(cmd'[b]) => /\ Staging(cmd[b])
                                               /\ cmd'[b].then = cmd[b].then
                                               /\ cmd'[b].own = cmd[b].own
  BY <1>1
<1>3. QED
  BY <1>2, QuietStep

LEMMA SweepRecord ==
    ASSUME NEW todo, NEW then, NEW own
    PROVE  LET s == Sweep(todo, then, own)
           IN  s.pc = "cancel" /\ s.then = then /\ s.own = own /\ s.todo = todo
BY DEF Sweep, IdleCmd

LEMMA RequestQuiet ==
    ASSUME TypeInv, TypeInv', QueueInv, NEW c \in Client,
           \/ \E g, n \in Config : Rename(c, g, n)
           \/ \E j \in Job : Cancel(c, j)
           \/ \E st \in ClearStatuses : Clear(c, st)
           \/ RenameLock(c) /\ UNCHANGED fsLock
    PROVE  QueueInv'
<1>1. CASE \E g, n \in Config : Rename(c, g, n)
  <2>1. PICK g \in Config, n \in Config : Rename(c, g, n)
    BY <1>1
  <2> DEFINE r == [IdleCmd EXCEPT !.pc = "fs_lock", !.cfg = g, !.new = n]
  <2>2. r.own = {} /\ ~Staging(r)
    BY DEF IdleCmd, Staging
  <2>3. cmd' = [cmd EXCEPT ![c] = r]
    BY <2>1 DEF Rename
  <2>4. QED
    BY <2>1, <2>2, <2>3, QuietCall DEF Rename, jobVars, workVars, saveVars
<1>2. CASE \E j \in Job : Cancel(c, j)
  <2>1. PICK j \in Job : Cancel(c, j)
    BY <1>2
  <2> DEFINE r == Sweep({j}, "idle", {})
  <2>2. r.own = {} /\ ~Staging(r)
    BY SweepRecord DEF Staging
  <2>3. cmd' = [cmd EXCEPT ![c] = r]
    BY <2>1 DEF Cancel
  <2>4. QED
    BY <2>1, <2>2, <2>3, QuietCall DEF Cancel, jobVars, workVars, saveVars
<1>3. CASE \E st \in ClearStatuses : Clear(c, st)
  <2>1. PICK st \in ClearStatuses : Clear(c, st)
    BY <1>3
  <2> DEFINE r == [IdleCmd EXCEPT !.pc = "save"]
  <2>2. r.own = {} /\ ~Staging(r)
    BY DEF IdleCmd, Staging
  <2>3. cmd' = [cmd EXCEPT ![c] = r] /\ known' \subseteq known
    BY <2>1 DEF Clear
  <2>4. QED
    BY <2>1, <2>2, <2>3, QuietCall DEF Clear, workVars, saveVars
<1>4. CASE RenameLock(c) /\ UNCHANGED fsLock
  <2>1. fsLock = NoOne /\ NoOne # c
    BY <1>4, TaskAssumption DEF RenameLock, Proc
  <2>2. cmd' = [cmd EXCEPT ![c] = IdleCmd] /\ UNCHANGED jobVars
    BY <1>4, <2>1 DEF RenameLock
  <2>3. IdleCmd.own = {} /\ ~Staging(IdleCmd)
    BY DEF IdleCmd, Staging
  <2>4. QED
    BY <1>4, <2>2, <2>3, QuietCall DEF RenameLock, jobVars, workVars, saveVars
<1>5. QED
  BY <1>1, <1>2, <1>3, <1>4

LEMMA CallQuiet ==
    ASSUME TypeInv, TypeInv', QueueInv, NEW c \in Client,
           \/ StageSaved(c) \/ StageFails(c) \/ CancelQueued(c) \/ CancelRunning(c)
           \/ CancelMissed(c) \/ Killed(c) \/ SweepDone(c) \/ CommitSaved(c)
    PROVE  QueueInv'
<1>0. cmd[c] \in Cmd /\ IdleCmd.own = {} /\ ~Staging(IdleCmd)
  BY DEF IdleCmd, Staging, TypeInv, TypeOK, TaskTypes
<1>1. CASE StageSaved(c)
  <2> DEFINE r == [cmd[c] EXCEPT !.pc = "stage_write"]
  <2>1. r.own = cmd[c].own /\ r.then = cmd[c].then /\ Staging(cmd[c])
    BY <1>0, <1>1 DEF StageSaved, Staging, Cmd
  <2>2. cmd' = [cmd EXCEPT ![c] = r]
    BY <1>1 DEF StageSaved
  <2>3. QED
    BY <1>1, <2>1, <2>2, QuietCall DEF StageSaved, SaveReturns, jobVars, workVars
<1>2. CASE StageFails(c)
  BY <1>0, <1>2, QuietCall DEF StageFails, workVars, saveVars
<1>3. CASE CancelQueued(c)
  <2> DEFINE r == [cmd[c] EXCEPT !.pc = "save1", !.job = MinOf(cmd[c].todo)]
  <2>1. /\ r.own = cmd[c].own /\ r.then = cmd[c].then
        /\ Staging(r) => Staging(cmd[c])
    BY <1>0, <1>3 DEF CancelQueued, Sweeping, Staging, Cmd
  <2>2. cmd' = [cmd EXCEPT ![c] = r] /\ known' \subseteq known
    BY <1>3, PruneKeeps DEF CancelQueued
  <2>3. \A j \in Job : status'[j] = status[j]
                       \/ (status[j] = "queued" /\ status'[j] = "cancelled")
    BY <1>3 DEF CancelQueued, TypeInv, TypeOK, JobTypes
  <2>4. QED
    BY <1>3, <2>1, <2>2, <2>3, QuietCall DEF CancelQueued, workVars, saveVars
<1>4. CASE CancelRunning(c)
  <2> DEFINE r == [cmd[c] EXCEPT !.pc = "kill", !.job = MinOf(cmd[c].todo)]
  <2>1. /\ r.own = cmd[c].own /\ r.then = cmd[c].then
        /\ Staging(r) => Staging(cmd[c])
    BY <1>0, <1>4 DEF CancelRunning, Sweeping, Staging, Cmd
  <2>2. cmd' = [cmd EXCEPT ![c] = r]
    BY <1>4 DEF CancelRunning
  <2>3. QED
    BY <1>4, <2>1, <2>2, QuietCall DEF CancelRunning, jobVars, workVars, saveVars
<1>5. CASE CancelMissed(c)
  <2> DEFINE r == [cmd[c] EXCEPT !.todo = cmd[c].todo \ {MinOf(cmd[c].todo)}]
  <2>1. /\ r.own = cmd[c].own /\ r.then = cmd[c].then
        /\ Staging(r) => Staging(cmd[c])
    BY <1>0, <1>5 DEF Staging, Cmd
  <2>2. cmd' = [cmd EXCEPT ![c] = r]
    BY <1>5 DEF CancelMissed
  <2>3. QED
    BY <1>5, <2>1, <2>2, QuietCall DEF CancelMissed, jobVars, workVars, saveVars
<1>6. CASE Killed(c)
  <2> DEFINE r == [cmd[c] EXCEPT !.pc = "cancel", !.todo = cmd[c].todo \ {cmd[c].job},
                                 !.job = NoJob]
  <2>1. /\ r.own = cmd[c].own /\ r.then = cmd[c].then
        /\ Staging(r) => Staging(cmd[c])
    BY <1>0, <1>6 DEF Killed, Staging, Cmd
  <2>2. cmd' = [cmd EXCEPT ![c] = r]
    BY <1>6 DEF Killed
  <2>3. QED
    BY <1>6, <2>1, <2>2, QuietCall DEF Killed, jobVars, workVars, saveVars
<1>7. CASE SweepDone(c)
  <2>1. cmd[c].then = "idle" => cmd' = [cmd EXCEPT ![c] = IdleCmd]
    BY <1>7 DEF SweepDone
  <2> DEFINE r == [cmd[c] EXCEPT !.pc = cmd[c].then]
  <2>2. cmd[c].then # "idle" => cmd' = [cmd EXCEPT ![c] = r]
    BY <1>7 DEF SweepDone
  <2>3. /\ r.own = cmd[c].own /\ r.then = cmd[c].then
        /\ Staging(r) => Staging(cmd[c])
    BY <1>0, <1>7 DEF SweepDone, Staging, Cmd
  <2>4. UNCHANGED <<jobVars, workVars, saveVars>>
    BY <1>7 DEF SweepDone
  <2>5. CASE cmd[c].then = "idle"
    BY <1>0, <2>1, <2>4, <2>5, QuietCall DEF jobVars, workVars, saveVars
  <2>6. CASE cmd[c].then # "idle"
    BY <2>2, <2>3, <2>4, <2>6, QuietCall DEF jobVars, workVars, saveVars
  <2>7. QED
    BY <2>5, <2>6
<1>8. CASE CommitSaved(c)
  BY <1>0, <1>8, QuietCall DEF CommitSaved, SaveReturns, jobVars, workVars
<1>9. QED
  BY <1>1, <1>2, <1>3, <1>4, <1>5, <1>6, <1>7, <1>8

\* A queued job was cancelled: its dependents are cancelled too, the gate is woken.
LEMMA CancelSavedQuiet ==
    ASSUME TypeInv, TypeInv', QueueInv, NEW c \in Client,
           CancelSaved(c) \/ CancelSavedAgain(c)
    PROVE  QueueInv'
<1> DEFINE j == cmd[c].job
           r == [cmd[c] EXCEPT !.pc = "cancel", !.job = NoJob,
                   !.todo = (cmd[c].todo \ {j}) \cup
                       (IF IsTail(j) /\ Active(desc[j].dep) THEN {desc[j].dep} ELSE {})]
           s == [cmd[c] EXCEPT !.pc = "save2"]
<1>1. cmd[c] \in Cmd
  BY DEF TypeInv, TypeOK, TaskTypes
<1>2. /\ r.own = cmd[c].own /\ r.then = cmd[c].then /\ s.own = cmd[c].own
      /\ s.then = cmd[c].then
      /\ Staging(r) => Staging(cmd[c])
      /\ Staging(s) => Staging(cmd[c])
  BY <1>1 DEF CancelSaved, CancelSavedAgain, Staging, Cmd
<1>3. UNCHANGED <<next, desc, released, queue, wjob, disk, left, blob>>
  BY DEF CancelSaved, CancelSavedAgain, SaveReturns, jobVars
<1>4. /\ cmd' = [cmd EXCEPT ![c] = r] \/ cmd' = [cmd EXCEPT ![c] = s]
      /\ wpc' = Woken(wpc)
  BY DEF CancelSaved, CancelSavedAgain, CancelEnds
<1>5. /\ known' \subseteq known
      /\ \A i \in Job : status'[i] = status[i]
                        \/ (status[i] = "queued" /\ status'[i] = "cancelled")
  <2>1. CASE UNCHANGED <<status, known>>
    BY <2>1
  <2>2. CASE /\ status' = [i \in Job |-> IF i \in Held(j) THEN "cancelled" ELSE status[i]]
             /\ known' = Prune(known, status')
    BY <2>2, PruneKeeps DEF Held
  <2>3. QED
    BY <2>1, <2>2 DEF CancelSaved, CancelSavedAgain, jobVars
<1>6. CASE cmd' = [cmd EXCEPT ![c] = r]
  <2>1. r.own \subseteq cmd[c].own /\ wpc' = Woken(wpc)
    BY <1>2, <1>4
  <2>2. QED
    BY <1>2, <1>3, <1>5, <1>6, <2>1, QuietCall
<1>7. CASE cmd' = [cmd EXCEPT ![c] = s]
  <2>1. s.own \subseteq cmd[c].own /\ wpc' = Woken(wpc)
    BY <1>2, <1>4
  <2>2. QED
    BY <1>2, <1>3, <1>5, <1>7, <2>1, QuietCall
<1>8. QED
  BY <1>4, <1>6, <1>7

LEMMA RevertQuiet ==
    ASSUME TypeInv, TypeInv', QueueInv, NEW t \in Job, RevertStart(t) \/ RevertDone(t)
    PROVE  QueueInv'
<1>1. UNCHANGED <<jobVars, workVars, cmd, saveVars>>
  BY DEF RevertStart, RevertDone
<1>2. QED
  BY <1>1, QuietStep DEF jobVars, workVars, saveVars

\* Saving reads the jobs and changes none.
LEMMA SaveStepInv ==
    ASSUME TypeInv, TypeInv', QueueInv, SaveStep
    PROVE  QueueInv'
<1>1. UNCHANGED <<jobVars, workVars, cmd>>
  BY DEF SaveStep, SaveBegin, SaveJob, SaveWrite
<1>2. /\ \A j : Placed(j)' <=> Placed(j)
      /\ \A j : OnLane(j)' <=> OnLane(j)
  BY <1>1 DEF Placed, In, OnLane, workVars
<1>3. PlaceInv' /\ StatusInv'
  BY <1>1, <1>2 DEF QueueInv, PlaceInv, StatusInv, Distinct, In, workVars, jobVars
<1>4. ChainInv' /\ StageInv'
  BY <1>1, <1>2 DEF QueueInv, ChainInv, StageInv, jobVars
<1>5. /\ left' \subseteq left \cup known
      /\ ~TornWrites => \/ UNCHANGED <<disk, blob>>
                        \/ /\ blob' = [j \in Job |-> Absent]
                           /\ disk' = [j \in Job |-> IF j \in left
                                  THEN [status |-> status[j], released |-> released[j]]
                                  ELSE blob[j]]
  BY DEF SaveStep, SaveBegin, SaveJob, SaveWrite
<1>6. FreshInv'
  <2>1. \A j \in Job : j >= next /\ ~TornWrites => disk'[j] = Absent
    BY <1>5 DEF QueueInv, FreshInv, DiskInv
  <2>2. QED
    BY <1>1, <1>2, <1>5, <2>1 DEF QueueInv, FreshInv, jobVars
<1>7. DiskInv'
  <2>1. SUFFICES ASSUME ~TornWrites, NEW d \in Job
                 PROVE  /\ blob'[d] = Absent
                        /\ desc'[d].dep # NoJob /\ disk'[d].released
                           => disk'[desc'[d].dep].status \in Past
    BY DEF DiskInv
  <2>2. CASE UNCHANGED <<disk, blob>>
    BY <1>1, <2>1, <2>2 DEF QueueInv, DiskInv, jobVars
  <2>3. CASE /\ blob' = [j \in Job |-> Absent]
             /\ disk' = [j \in Job |-> IF j \in left
                            THEN [status |-> status[j], released |-> released[j]]
                            ELSE blob[j]]
    <3>1. desc' = desc /\ blob'[d] = Absent
      BY <1>1, <2>3 DEF jobVars
    <3>2. ASSUME desc[d].dep # NoJob, disk'[d].released
          PROVE  disk'[desc[d].dep].status \in Past
      <4>1. desc[d].dep \in Job /\ blob[d] = Absent /\ blob[desc[d].dep] = Absent
        BY <2>1, <3>2, DepTyped DEF QueueInv, DiskInv
      <4>2. released[d]
        BY <2>3, <3>2, <4>1 DEF Absent
      <4>3. status[desc[d].dep] \in Past
        BY <3>2, <4>2 DEF QueueInv, ChainInv
      <4>4. QED
        BY <2>3, <4>1, <4>3 DEF Absent, Past
    <3>3. QED
      BY <3>1, <3>2
  <2>4. QED
    BY <1>5, <2>1, <2>2, <2>3
<1>8. QED
  BY <1>3, <1>4, <1>6, <1>7 DEF QueueInv

-----------------------------------------------------------------------------
(* Steps that create jobs *)

\* The ids in N are handed out, all of them queued; at most the first gets a lane, and
\* only if it waits for nobody.
LEMMA CreateStep ==
    ASSUME TypeInv, TypeInv', QueueInv, NEW c \in Client, NEW r, NEW N \in SUBSET Job,
           UNCHANGED <<released, wpc, wjob, saveVars>>,
           N = {j \in Job : next <= j /\ j < next'},
           next' >= next,
           known' = known \cup N,
           \A j \in Job \ N : desc'[j] = desc[j] /\ status'[j] = status[j],
           \A j \in N : status'[j] = "queued" /\ desc'[j].dep \in N \cup {NoJob},
           \/ queue' = queue
           \/ \E j \in N : /\ In(queue') = In(queue) \cup {j} /\ Distinct(queue')
                           /\ desc'[j].dep = NoJob
                           /\ ~Staging(r),
           cmd' = [cmd EXCEPT ![c] = r], r.own = N,
           r.then = "place" => \A j \in N : desc'[j].dep = NoJob
    PROVE  QueueInv'
<1>1. \A b \in Client : cmd'[b] = IF b = c THEN r ELSE cmd[b]
  BY DEF TypeInv, TypeOK, TaskTypes
<1>2. next \in Nat /\ next' \in Nat /\ Job \subseteq Nat
  BY DEF TypeInv, TypeOK, JobTypes, Job
<1>3. \A j \in N : /\ j >= next /\ ~Placed(j) /\ j \notin left /\ ~released[j]
                   /\ ~TornWrites => disk[j] = Absent
                   /\ \A b \in Client : j \notin cmd[b].own
  BY DEF QueueInv, FreshInv
<1>4. Distinct(queue') /\ In(queue) \subseteq In(queue') /\ In(queue') \subseteq In(queue) \cup N
  BY DEF QueueInv, PlaceInv
<1>5. /\ \A j \in Job \ N : Placed(j)' <=> Placed(j)
      /\ \A j \in N : Placed(j)' => desc'[j].dep = NoJob /\ ~Staging(r)
  BY <1>3, <1>4 DEF Placed
<1>6. FreshInv'
  <2>1. \A j \in Job : j >= next' => j \notin N /\ j >= next
    BY <1>2
  <2>2. \A j \in Job : j < next' => desc'[j].dep < next'
    <3>1. TAKE j \in Job
    <3>2. HAVE j < next'
    <3>3. CASE j \in N
      <4>1. desc'[j].dep \in N \/ desc'[j].dep = 0
        BY <3>3 DEF NoJob
      <4>2. next' > 0
        BY DEF TypeInv, TypeOK, JobTypes
      <4>3. QED
        BY <4>1, <4>2
    <3>4. CASE j \notin N
      <4>1. j < next
        BY <1>2, <3>2, <3>4
      <4>2. desc'[j].dep = desc[j].dep /\ desc[j].dep < next
        BY <3>4, <4>1 DEF QueueInv, FreshInv
      <4>3. desc[j].dep \in Nat
        BY DepTyped, <1>2 DEF NoJob
      <4>4. QED
        BY <4>2, <4>3, <1>2
    <3>5. QED
      BY <3>3, <3>4
  <2>3. \A j \in Job : j >= next' =>
           /\ j \notin known' /\ j \notin left' /\ status'[j] = "none" /\ ~released'[j]
           /\ ~Placed(j)' /\ \A b \in Client : j \notin cmd'[b].own
           /\ ~TornWrites => disk'[j] = Absent
    BY <1>1, <1>5, <2>1 DEF QueueInv, FreshInv, saveVars
  <2>4. QED
    BY <2>2, <2>3 DEF FreshInv
<1>7. PlaceInv'
  <2>1. \A w \in Worker : wjob[w] \notin N
    BY <1>3 DEF Placed
  <2>2. \A w \in Worker : wjob[w] \notin In(queue')
    BY <1>4, <2>1 DEF QueueInv, PlaceInv
  <2>3. QED
    BY <1>4, <2>2 DEF QueueInv, PlaceInv
<1>8. StatusInv'
  <2>1. \A w \in Worker : wjob[w] \notin N
    BY <1>3 DEF Placed
  <2>2. \A w \in Worker : wpc[w] # "idle" => wjob[w] \in Job \ N
    BY <2>1 DEF TypeInv, TaskInv
  <2>3. \A j \in In(queue') : status'[j] \in Idling
    BY <1>4, InTyped DEF QueueInv, StatusInv, Idling
  <2>4. \A j \in Job : status'[j] = "running" => OnLane(j)'
    BY DEF QueueInv, StatusInv, OnLane
  <2>5. \A w \in Worker : /\ wpc'[w] \in {"gate", "woken"} => status'[wjob'[w]] \in Idling
                          /\ wpc'[w] \in SlotPc => status'[wjob'[w]] = "running"
    BY <2>2 DEF QueueInv, StatusInv, SlotPc
  <2>6. QED
    BY <2>3, <2>4, <2>5 DEF StatusInv
<1>9. ChainInv'
  <2>1. SUFFICES ASSUME NEW d \in Job, desc'[d].dep # NoJob, Placed(d)' \/ released'[d]
                 PROVE  status'[desc'[d].dep] \in Past
    BY DEF ChainInv
  <2>2. d \notin N
    BY <1>3, <1>5, <2>1
  <2>3. /\ desc'[d] = desc[d] /\ desc[d].dep \in Job
        /\ status[desc[d].dep] \in Past
    BY <1>5, <2>1, <2>2, DepTyped DEF QueueInv, ChainInv
  <2>4. d < next
    BY <1>2, <1>5, <2>1, <2>2 DEF QueueInv, FreshInv
  <2>5. desc[d].dep \notin N
    <3>1. desc[d].dep < next
      BY <2>4 DEF QueueInv, FreshInv
    <3>2. \A k \in N : next <= k
      OBVIOUS
    <3>3. \A a, b \in Nat : a < b => ~(b <= a)
      OBVIOUS
    <3>4. desc[d].dep \in Nat
      BY <1>2, <2>3
    <3>5. QED
      BY <1>2, <3>1, <3>2, <3>3, <3>4
  <2>6. QED
    BY <2>3, <2>5
<1>10. StageInv'
  <2>1. SUFFICES ASSUME NEW b \in Client, Staging(cmd'[b])
                 PROVE  /\ \A j \in cmd'[b].own :
                              /\ ~Placed(j)' /\ status'[j] \in Idling
                              /\ desc'[j].dep \in cmd'[b].own \cup {NoJob}
                              /\ cmd'[b].then = "place" => desc'[j].dep = NoJob
                        /\ \A e \in Client : e # b /\ Staging(cmd'[e])
                                             => cmd'[e].own \cap cmd'[b].own = {}
    BY DEF StageInv
  <2>2. \A e \in Client : cmd[e].own \subseteq Job \ N
    BY <1>3 DEF TypeInv, TypeOK, TaskTypes, Cmd
  <2>3. CASE b = c
    BY <1>1, <1>5, <2>1, <2>2, <2>3 DEF Idling
  <2>4. CASE b # c
    BY <1>1, <1>5, <2>1, <2>2, <2>4 DEF QueueInv, StageInv
  <2>5. QED
    BY <2>3, <2>4
<1>11. DiskInv'
  <2>1. SUFFICES ASSUME ~TornWrites, NEW d \in Job
                 PROVE  /\ blob'[d] = Absent
                        /\ desc'[d].dep # NoJob /\ disk'[d].released
                           => disk'[desc'[d].dep].status \in Past
    BY DEF DiskInv
  <2>2. d \in N => ~disk[d].released
    BY <1>3, <2>1 DEF Absent
  <2>3. QED
    BY <2>1, <2>2 DEF QueueInv, DiskInv, saveVars
<1>12. QED
  BY <1>6, <1>7, <1>8, <1>9, <1>10, <1>11 DEF QueueInv

LEMMA SubmitOneInv ==
    ASSUME TypeInv, TypeInv', QueueInv, NEW c \in Client, NEW op, NEW ty, NEW g,
           SubmitOne(c, op, ty, g)
    PROVE  QueueInv'
<1> DEFINE r == Sweep(ActiveOf(g, {}), "save", {next})
           d == NewJob(ty, g, NoConfig, NoJob)
           N == {next}
<1>1. /\ next \in Job /\ N \in SUBSET Job /\ N = {j \in Job : next <= j /\ j < next'}
      /\ next' = next + 1 /\ next' >= next
  BY BoundsAssumption DEF SubmitOne, CanCreate, TypeInv, TypeOK, JobTypes, Job
<1>2. /\ desc' = [desc EXCEPT ![next] = d] /\ status' = [status EXCEPT ![next] = "queued"]
      /\ desc' = [j \in Job |-> IF j = next THEN d ELSE desc[j]]
      /\ status' = [j \in Job |-> IF j = next THEN "queued" ELSE status[j]]
      /\ d.dep = NoJob
  BY <1>1 DEF SubmitOne, NewJob, TypeInv, TypeOK, JobTypes
<1>3. /\ \A j \in Job \ N : desc'[j] = desc[j] /\ status'[j] = status[j]
      /\ \A j \in N : status'[j] = "queued" /\ desc'[j].dep \in N \cup {NoJob}
      /\ desc'[next].dep = NoJob
  BY <1>1, <1>2
<1>4. /\ r.own = N /\ r.then = "save" /\ ~Staging(r)
      /\ cmd' = [cmd EXCEPT ![c] = r]
  BY SweepRecord DEF SubmitOne, Staging
<1>5. queue' = [queue EXCEPT ![LaneOfDesc(d)] = Append(@, next)]
  BY <1>1, <1>2 DEF SubmitOne, PlaceNew
<1>6. In(queue') = In(queue) \cup {next} /\ Distinct(queue')
  <2>1. next \notin In(queue) /\ Distinct(queue) /\ queue \in [Lane -> Seq(Job)]
    BY <1>1 DEF QueueInv, FreshInv, PlaceInv, Placed, TypeInv, TypeOK, WorkTypes, JobTypes, Job
  <2>2. QED
    BY <1>1, <1>5, <2>1, LaneTyped, InAppend
<1>7. UNCHANGED <<released, wpc, wjob, saveVars>> /\ known' = known \cup N
  BY DEF SubmitOne
<1>8. QED
  BY <1>1, <1>3, <1>4, <1>6, <1>7, CreateStep

LEMMA InstallInv ==
    ASSUME TypeInv, TypeInv', QueueInv, NEW c \in Client, NEW g, Install(c, g)
    PROVE  QueueInv'
<1> DEFINE N == {next, next + 1}
           r == Sweep(ActiveOf(g, {}), "save", N)
           d == NewJob("compile", g, NoConfig, NoJob)
           e == NewJob("upload", g, NoConfig, next)
<1>1. /\ next \in Job /\ next + 1 \in Job /\ next + 1 # next
      /\ N \in SUBSET Job /\ N = {j \in Job : next <= j /\ j < next'}
      /\ next' = next + 2 /\ next' >= next
  BY BoundsAssumption DEF Install, CanCreate, TypeInv, TypeOK, JobTypes, Job
<1>2. /\ desc' = [j \in Job |-> IF j = next + 1 THEN e ELSE IF j = next THEN d ELSE desc[j]]
      /\ status' = [j \in Job |-> IF j \in N THEN "queued" ELSE status[j]]
      /\ d.dep = NoJob /\ e.dep = next
  BY <1>1 DEF Install, NewJob, TypeInv, TypeOK, JobTypes
<1>3. /\ \A j \in Job \ N : desc'[j] = desc[j] /\ status'[j] = status[j]
      /\ \A j \in N : status'[j] = "queued" /\ desc'[j].dep \in N \cup {NoJob}
      /\ desc'[next] = d /\ desc'[next + 1] = e
  BY <1>1, <1>2
<1>4. /\ r.own = N /\ r.then = "save" /\ ~Staging(r)
      /\ cmd' = [cmd EXCEPT ![c] = r]
  BY SweepRecord DEF Install, Staging
<1>5. queue' = [queue EXCEPT ![LaneOfDesc(d)] = Append(@, next)]
  <2>1. d.dep = NoJob /\ e.dep # NoJob
    BY <1>1, <1>2 DEF Job, NoJob
  <2>2. /\ PlaceNew(queue, next + 1, e) = queue
        /\ PlaceNew(queue, next, d) = [queue EXCEPT ![LaneOfDesc(d)] = Append(@, next)]
    BY <2>1 DEF PlaceNew
  <2>3. queue' = PlaceNew(PlaceNew(queue, next + 1, e), next, d)
    BY <1>3 DEF Install
  <2>4. QED
    BY <2>2, <2>3
<1>6. In(queue') = In(queue) \cup {next} /\ Distinct(queue')
  <2>1. next \notin In(queue) /\ Distinct(queue) /\ queue \in [Lane -> Seq(Job)]
    BY <1>1 DEF QueueInv, FreshInv, PlaceInv, Placed, TypeInv, TypeOK, WorkTypes, JobTypes, Job
  <2>2. QED
    BY <1>1, <1>5, <2>1, LaneTyped, InAppend
<1>7. UNCHANGED <<released, wpc, wjob, saveVars>> /\ known' = known \cup N
  BY DEF Install
<1>8. QED
  BY <1>1, <1>2, <1>3, <1>4, <1>6, <1>7, CreateStep

LEMMA ResetBuildEnvInv ==
    ASSUME TypeInv, TypeInv', QueueInv, NEW c \in Client, ResetBuildEnv(c)
    PROVE  QueueInv'
<1> DEFINE N == {next}
           r == Sweep({j \in known : Active(j)}, "place", N)
           d == NewJob("reset", NoConfig, NoConfig, NoJob)
<1>1. /\ next \in Job /\ N \in SUBSET Job /\ N = {j \in Job : next <= j /\ j < next'}
      /\ next' = next + 1 /\ next' >= next
  BY BoundsAssumption DEF ResetBuildEnv, CanCreate, TypeInv, TypeOK, JobTypes, Job
<1>2. /\ desc' = [j \in Job |-> IF j = next THEN d ELSE desc[j]]
      /\ status' = [j \in Job |-> IF j = next THEN "queued" ELSE status[j]]
      /\ d.dep = NoJob
  BY <1>1 DEF ResetBuildEnv, NewJob, TypeInv, TypeOK, JobTypes
<1>3. /\ \A j \in Job \ N : desc'[j] = desc[j] /\ status'[j] = status[j]
      /\ \A j \in N : status'[j] = "queued" /\ desc'[j].dep = NoJob
  BY <1>1, <1>2
<1>4. r.own = N /\ cmd' = [cmd EXCEPT ![c] = r]
  BY SweepRecord DEF ResetBuildEnv
<1>5. /\ UNCHANGED <<released, wpc, wjob, saveVars>> /\ known' = known \cup N
      /\ queue' = queue
  BY DEF ResetBuildEnv, workVars
<1>6. QED
  BY <1>1, <1>3, <1>4, <1>5, CreateStep

LEMMA RenameLockInv ==
    ASSUME TypeInv, TypeInv', QueueInv, NEW c \in Client, RenameLock(c), fsLock' # fsLock
    PROVE  QueueInv'
<1> DEFINE N == {next, next + 1}
           g == cmd[c].cfg
           n == cmd[c].new
           r == [Sweep(ActiveOf(g, {}), "stage_save", N) EXCEPT !.new = n]
           d == NewJob("compile", n, NoConfig, NoJob)
           e == NewJob("rename", g, n, next)
<1>1. /\ next + 2 <= MaxJob + 1
      /\ desc' = [desc EXCEPT ![next] = d, ![next + 1] = e]
      /\ next' = next + 2
      /\ known' = known \cup N
      /\ status' = [status EXCEPT ![next] = "queued", ![next + 1] = "queued"]
      /\ cmd' = [cmd EXCEPT ![c] = r]
      /\ UNCHANGED <<released, workVars, saveVars>>
  BY DEF RenameLock
<1>2. /\ next \in Job /\ next + 1 \in Job /\ next + 1 # next
      /\ N \in SUBSET Job /\ N = {j \in Job : next <= j /\ j < next'}
      /\ next' >= next
  BY <1>1, BoundsAssumption DEF TypeInv, TypeOK, JobTypes, Job
<1>3. /\ desc' = [j \in Job |-> IF j = next + 1 THEN e ELSE IF j = next THEN d ELSE desc[j]]
      /\ status' = [j \in Job |-> IF j \in N THEN "queued" ELSE status[j]]
      /\ d.dep = NoJob /\ e.dep = next
  BY <1>1, <1>2 DEF NewJob, TypeInv, TypeOK, JobTypes
<1>4. /\ \A j \in Job \ N : desc'[j] = desc[j] /\ status'[j] = status[j]
      /\ \A j \in N : status'[j] = "queued" /\ desc'[j].dep \in N \cup {NoJob}
  BY <1>2, <1>3
<1>5. r.own = N /\ r.then = "stage_save"
  BY DEF Sweep, IdleCmd
<1>6. UNCHANGED <<released, wpc, wjob, saveVars>> /\ queue' = queue
  BY <1>1 DEF workVars
<1>7. QED
  BY <1>1, <1>2, <1>4, <1>5, <1>6, CreateStep

-----------------------------------------------------------------------------
(* Steps that place a job created before *)

\* A staged chain's head, or a reset, gets its lane; the call stages nothing after that.
LEMMA PlaceStep ==
    ASSUME TypeInv, TypeInv', QueueInv, NEW c \in Client, NEW r,
           UNCHANGED <<jobVars, wpc, wjob, saveVars>>,
           Staging(cmd[c]), ~Staging(r), r.own = cmd[c].own,
           cmd' = [cmd EXCEPT ![c] = r],
           \/ queue' = queue
           \/ \E l \in Lane : \E j \in cmd[c].own :
                 /\ queue' = [queue EXCEPT ![l] = Append(@, j)] /\ desc[j].dep = NoJob
    PROVE  QueueInv'
<1>1. \A b \in Client : cmd'[b] = IF b = c THEN r ELSE cmd[b]
  BY DEF TypeInv, TypeOK, TaskTypes
<1>2. CASE queue' = queue
  <2>1. \A b \in Client : /\ cmd'[b].own \subseteq cmd[b].own
                          /\ Staging(cmd'[b]) => /\ Staging(cmd[b])
                                                 /\ cmd'[b].then = cmd[b].then
                                                 /\ cmd'[b].own = cmd[b].own
    BY <1>1
  <2>2. QED
    BY <1>2, <2>1, QuietStep DEF jobVars, saveVars
<1>3. CASE \E l \in Lane : \E j \in cmd[c].own :
             queue' = [queue EXCEPT ![l] = Append(@, j)] /\ desc[j].dep = NoJob
  <2>1. PICK l \in Lane : \E j \in cmd[c].own :
             queue' = [queue EXCEPT ![l] = Append(@, j)] /\ desc[j].dep = NoJob
    BY <1>3
  <2>2. PICK j \in cmd[c].own :
             queue' = [queue EXCEPT ![l] = Append(@, j)] /\ desc[j].dep = NoJob
    BY <2>1
  <2>3. j \in Job /\ ~Placed(j) /\ status[j] \in Idling
    BY DEF QueueInv, StageInv, TypeInv, TypeOK, TaskTypes, Cmd
  <2>4. In(queue') = In(queue) \cup {j} /\ Distinct(queue')
    BY <2>2, <2>3, InAppend DEF QueueInv, PlaceInv, Placed, TypeInv, TypeOK, WorkTypes
  <2>5. \A i : Placed(i)' <=> Placed(i) \/ i = j
    BY <2>4 DEF Placed
  <2>6. FreshInv'
    <3>1. ~(j >= next)
      BY <2>3 DEF QueueInv, FreshInv
    <3>2. QED
      BY <1>1, <2>5, <3>1 DEF QueueInv, FreshInv, jobVars, saveVars
  <2>7. PlaceInv'
    BY <2>3, <2>4 DEF QueueInv, PlaceInv, Placed
  <2>8. StatusInv'
    BY <2>3, <2>4 DEF QueueInv, StatusInv, OnLane, jobVars
  <2>9. ChainInv'
    BY <2>2, <2>5 DEF QueueInv, ChainInv, jobVars
  <2>10. StageInv'
    <3>1. \A b \in Client : b # c /\ Staging(cmd[b]) => j \notin cmd[b].own
      BY DEF QueueInv, StageInv
    <3>2. QED
      BY <1>1, <2>5, <3>1 DEF QueueInv, StageInv, jobVars
  <2>11. DiskInv'
    BY DEF QueueInv, DiskInv, jobVars, saveVars
  <2>12. QED
    BY <2>6, <2>7, <2>8, <2>9, <2>10, <2>11 DEF QueueInv
<1>4. QED
  BY <1>2, <1>3

LEMMA StageWrittenInv ==
    ASSUME TypeInv, TypeInv', QueueInv, NEW c \in Client, StageWritten(c)
    PROVE  QueueInv'
<1> DEFINE h == MinOf(cmd[c].own)
           r == Sweep(ActiveOf(cmd[c].new, cmd[c].own), "save", cmd[c].own)
<1>1. cmd[c].own \subseteq Job /\ cmd[c].own # {} /\ Staging(cmd[c])
  BY DEF StageWritten, TypeInv, TypeOK, TaskTypes, TaskInv, Cmd, CmdInv, Staging
<1>2. h \in cmd[c].own
  BY <1>1, MinInSet DEF Job
<1>3. r.own = cmd[c].own /\ ~Staging(r) /\ cmd' = [cmd EXCEPT ![c] = r]
  BY SweepRecord DEF StageWritten, Staging
<1>4. \/ queue' = queue
      \/ \E l \in Lane : \E j \in cmd[c].own :
            queue' = [queue EXCEPT ![l] = Append(@, j)] /\ desc[j].dep = NoJob
  BY <1>2, LaneTyped DEF StageWritten, PlaceNew
<1>5. UNCHANGED <<jobVars, wpc, wjob, saveVars>>
  BY DEF StageWritten
<1>6. QED
  BY <1>1, <1>3, <1>4, <1>5, PlaceStep

LEMMA ResetSweptInv ==
    ASSUME TypeInv, TypeInv', QueueInv, NEW c \in Client, ResetSwept(c)
    PROVE  QueueInv'
<1> DEFINE h == MinOf(cmd[c].own)
           r == [cmd[c] EXCEPT !.pc = "save"]
<1>1. /\ cmd[c].own \subseteq Job /\ cmd[c].own # {} /\ Staging(cmd[c]) /\ cmd[c] \in Cmd
      /\ cmd[c].then = "place"
  BY DEF ResetSwept, TypeInv, TypeOK, TaskTypes, TaskInv, Cmd, CmdInv, Staging
<1>2. h \in cmd[c].own
  BY <1>1, MinInSet DEF Job
<1>3. r.own = cmd[c].own /\ ~Staging(r) /\ cmd' = [cmd EXCEPT ![c] = r]
  BY <1>1 DEF ResetSwept, Staging, Cmd
<1>4. desc[h].dep = NoJob
  BY <1>1, <1>2 DEF QueueInv, StageInv
<1>5. \E l \in Lane : \E j \in cmd[c].own :
            queue' = [queue EXCEPT ![l] = Append(@, j)] /\ desc[j].dep = NoJob
  BY <1>2, <1>4, LaneTyped DEF ResetSwept, Place
<1>6. UNCHANGED <<jobVars, wpc, wjob, saveVars>>
  BY DEF ResetSwept
<1>7. QED
  BY <1>1, <1>3, <1>5, <1>6, PlaceStep

-----------------------------------------------------------------------------
(* Steps of a lane worker *)

\* A worker drops, parks or starts a job that it alone has, and that has not started.
LEMMA ConsiderInv ==
    ASSUME TypeInv, TypeInv', QueueInv, NEW w \in Worker,
           NEW j \in Job, status[j] \in Idling, wpc[w] \in {"idle", "woken"},
           Consider(w, j),
           UNCHANGED <<next, known, desc, released, cmd, saveVars>>,
           Distinct(queue'), j \notin In(queue'), In(queue') \subseteq In(queue),
           In(queue) \subseteq In(queue') \cup {j},
           wjob[w] \in {NoJob, j}, j \in In(queue) \/ wjob[w] = j,
           \A v \in Worker : v # w => wjob[v] # j
    PROVE  QueueInv'
<1>1. /\ \A v \in Worker : v # w => wpc'[v] = wpc[v] /\ wjob'[v] = wjob[v]
      /\ \/ /\ wpc'[w] = "idle" /\ wjob'[w] = NoJob /\ UNCHANGED status
         \/ /\ wpc'[w] = "gate" /\ wjob'[w] = j /\ UNCHANGED status
         \/ /\ wpc'[w] = "begin" /\ wjob'[w] = j /\ status[j] = "queued"
            /\ status' = [status EXCEPT ![j] = "running"]
  BY DEF Consider, Dropped, Idling, TypeInv, TypeOK, WorkTypes
<1>2. /\ \A i \in Job : i # j => status'[i] = status[i]
      /\ status'[j] = status[j] \/ (status[j] = "queued" /\ status'[j] = "running")
  BY <1>1 DEF TypeInv, TypeOK, JobTypes
<1>3. j # NoJob /\ NoJob \notin Job
  BY DEF Job, NoJob
<1>4. Placed(j) /\ \A i \in Job : Placed(i)' => Placed(i)
  <2>1. Placed(j)
    BY DEF Placed
  <2>2. ASSUME NEW i \in Job, Placed(i)'
        PROVE  Placed(i)
    <3>1. CASE i \in In(queue')
      BY <3>1 DEF Placed
    <3>2. CASE \E v \in Worker : wjob'[v] = i
      <4>1. PICK v \in Worker : wjob'[v] = i
        BY <3>2
      <4>2. CASE v = w
        BY <1>1, <1>3, <2>1, <2>2, <4>1, <4>2
      <4>3. CASE v # w
        BY <1>1, <4>1, <4>3 DEF Placed
      <4>4. QED
        BY <4>2, <4>3
    <3>3. QED
      BY <2>2, <3>1, <3>2 DEF Placed
  <2>3. QED
    BY <2>1, <2>2
<1>5. FreshInv'
  <2>1. j < next
    BY <1>4 DEF QueueInv, FreshInv, TypeInv, TypeOK, JobTypes, Job
  <2>2. \A i \in Job : i >= next => i # j
    BY <2>1 DEF TypeInv, TypeOK, JobTypes, Job
  <2>3. QED
    BY <1>2, <1>4, <2>2 DEF QueueInv, FreshInv, saveVars
<1>6. PlaceInv'
  <2>1. \A v \in Worker : wpc'[v] = "idle" => wjob'[v] = NoJob
    BY <1>1 DEF QueueInv, PlaceInv
  <2>2. \A v \in Worker : wjob'[v] \notin In(queue')
    BY <1>1, <1>3, InTyped DEF QueueInv, PlaceInv
  <2>3. \A u, v \in Worker : u # v /\ wjob'[u] = wjob'[v] => wjob'[u] = NoJob
    BY <1>1 DEF QueueInv, PlaceInv
  <2>4. QED
    BY <2>1, <2>2, <2>3 DEF PlaceInv
<1>7. StatusInv'
  <2>1. \A i \in In(queue') : status'[i] \in Idling
    BY <1>2, InTyped DEF QueueInv, StatusInv
  <2>2. \A v \in Worker : v # w /\ wpc[v] # "idle" => wjob[v] \in Job \ {j}
    BY DEF TypeInv, TaskInv
  <2>3. \A v \in Worker : /\ wpc'[v] \in {"gate", "woken"} => status'[wjob'[v]] \in Idling
                          /\ wpc'[v] \in SlotPc => status'[wjob'[v]] = "running"
    <3>1. TAKE v \in Worker
    <3>2. CASE v = w
      BY <1>1, <3>2 DEF SlotPc, TypeInv, TypeOK, JobTypes
    <3>3. CASE v # w
      <4>1. wpc'[v] = wpc[v] /\ wjob'[v] = wjob[v]
        BY <1>1, <3>3
      <4>2. wpc[v] # "idle" => status'[wjob[v]] = status[wjob[v]]
        BY <1>2, <2>2, <3>3
      <4>3. QED
        BY <4>1, <4>2 DEF QueueInv, StatusInv, SlotPc
    <3>4. QED
      BY <3>2, <3>3
  <2>4. \A i \in Job : status'[i] = "running" => OnLane(i)'
    <3>1. TAKE i \in Job
    <3>2. HAVE status'[i] = "running"
    <3>3. CASE status[i] = "running"
      <4>1. PICK v \in Worker : wjob[v] = i /\ wpc[v] \in {"begin", "prep", "proc", "swap"}
        BY <3>3 DEF QueueInv, StatusInv, OnLane
      <4>2. v # w
        BY <4>1
      <4>3. QED
        BY <1>1, <4>1, <4>2 DEF OnLane
    <3>4. CASE status[i] # "running"
      <4>1. i = j /\ wpc'[w] = "begin" /\ wjob'[w] = j
        BY <1>1, <1>2, <3>2, <3>4
      <4>2. QED
        BY <4>1 DEF OnLane
    <3>5. QED
      BY <3>3, <3>4
  <2>5. QED
    BY <2>1, <2>3, <2>4 DEF StatusInv
<1>8. ChainInv'
  <2>1. SUFFICES ASSUME NEW d \in Job, desc[d].dep # NoJob, Placed(d) \/ released[d]
                 PROVE  status'[desc[d].dep] \in Past
    BY <1>4 DEF ChainInv
  <2>2. desc[d].dep \in Job /\ status[desc[d].dep] \in Past
    BY <2>1, DepTyped DEF QueueInv, ChainInv
  <2>3. QED
    BY <1>2, <2>2 DEF Past
<1>9. StageInv'
  <2>1. \A c \in Client : Staging(cmd[c]) => j \notin cmd[c].own
    BY <1>4 DEF QueueInv, StageInv
  <2>2. \A c \in Client : cmd[c].own \subseteq Job
    BY DEF TypeInv, TypeOK, TaskTypes, Cmd
  <2>3. \A c \in Client : Staging(cmd[c]) =>
           \A i \in cmd[c].own : i \in Job /\ ~Placed(i)' /\ status'[i] = status[i]
    BY <1>2, <1>4, <2>1, <2>2 DEF QueueInv, StageInv
  <2>4. QED
    BY <2>3 DEF QueueInv, StageInv
<1>10. DiskInv'
  BY DEF QueueInv, DiskInv, saveVars
<1>11. QED
  BY <1>5, <1>6, <1>7, <1>8, <1>9, <1>10 DEF QueueInv

LEMMA TakeInv ==
    ASSUME TypeInv, TypeInv', QueueInv, NEW w \in Worker, Take(w) \/ Recheck(w)
    PROVE  QueueInv'
<1>1. CASE Take(w)
  <2> DEFINE l == LaneOf[w]
             j == Head(queue[l])
  <2>1. l \in Lane /\ queue \in [Lane -> Seq(Job)] /\ queue[l] # <<>> /\ wpc[w] = "idle"
    BY <1>1, TaskAssumption DEF Take, TypeInv, TypeOK, WorkTypes
  <2>2. queue' = [queue EXCEPT ![l] = Tail(@)] /\ Consider(w, j)
    BY <1>1 DEF Take
  <2>3. j \in In(queue) /\ In(queue') = In(queue) \ {j} /\ Distinct(queue')
    BY <2>1, <2>2, InTail DEF QueueInv, PlaceInv
  <2>4. j \in Job /\ status[j] \in Idling
    BY <2>3, InTyped DEF QueueInv, StatusInv
  <2>5. wjob[w] = NoJob /\ \A v \in Worker : wjob[v] # j
    BY <2>1, <2>3 DEF QueueInv, PlaceInv
  <2>6. UNCHANGED <<next, known, desc, released, cmd, saveVars>>
    BY <1>1 DEF Take
  <2> HIDE DEF l, j
  <2>7. QED
    BY <2>1, <2>2, <2>3, <2>4, <2>5, <2>6, ConsiderInv
<1>2. CASE Recheck(w)
  <2> DEFINE j == wjob[w]
  <2>1. /\ wpc[w] = "woken" /\ Consider(w, j) /\ queue' = queue
        /\ UNCHANGED <<next, known, desc, released, cmd, saveVars>>
    BY <1>2 DEF Recheck
  <2>2. j \in Job /\ status[j] \in Idling
    BY <2>1 DEF TypeInv, TaskInv, QueueInv, StatusInv
  <2>3. /\ Distinct(queue') /\ j \notin In(queue') /\ In(queue') = In(queue)
        /\ \A v \in Worker : v # w => wjob[v] # j
    BY <2>1, <2>2 DEF QueueInv, PlaceInv, Job, NoJob
  <2> HIDE DEF j
  <2>4. wjob[w] = j
    BY DEF j
  <2>5. QED
    BY <2>1, <2>2, <2>3, <2>4, ConsiderInv
<1>3. QED
  BY <1>1, <1>2

\* A run goes on to its next stage, or its worker becomes idle.
LEMMA RunStepInv ==
    ASSUME TypeInv, TypeInv', QueueInv, NEW w \in Worker,
           Begun(w) \/ Spawn(w) \/ ExitToEpilogue(w) \/ Ended(w)
    PROVE  QueueInv'
<1>1. /\ UNCHANGED <<jobVars, queue, cmd, left, blob, disk>>
      /\ \A v \in Worker : v # w => wpc'[v] = wpc[v] /\ wjob'[v] = wjob[v]
      /\ \/ wpc[w] \in SlotPc /\ wpc'[w] \in SlotPc /\ wjob'[w] = wjob[w]
         \/ wpc[w] = "end" /\ wpc'[w] = "idle" /\ wjob'[w] = NoJob
  BY DEF Begun, Spawn, ExitToEpilogue, Ended, SaveReturns, SlotPc, saveVars, TypeInv, TypeOK,
         WorkTypes
<1>2. \A i \in Job : Placed(i)' => Placed(i)
  BY <1>1 DEF Placed, In, Job, NoJob
<1>3. FreshInv'
  BY <1>1, <1>2 DEF QueueInv, FreshInv, jobVars
<1>4. PlaceInv'
  <2>1. In(queue)' = In(queue) /\ Distinct(queue') /\ NoJob \notin In(queue)
    BY <1>1 DEF In, QueueInv, PlaceInv, Job, NoJob
  <2>2. QED
    BY <1>1, <2>1 DEF QueueInv, PlaceInv, SlotPc
<1>5. StatusInv'
  <2>1. \A i \in Job : OnLane(i) => OnLane(i)'
    BY <1>1 DEF OnLane, SlotPc
  <2>2. In(queue)' = In(queue) /\ status' = status
    BY <1>1 DEF In, jobVars
  <2>3. \A v \in Worker : /\ wpc'[v] \in {"gate", "woken"} => status[wjob'[v]] \in Idling
                          /\ wpc'[v] \in SlotPc => status[wjob'[v]] = "running"
    BY <1>1 DEF QueueInv, StatusInv, SlotPc
  <2>4. QED
    BY <2>1, <2>2, <2>3 DEF QueueInv, StatusInv
<1>6. ChainInv' /\ DiskInv'
  BY <1>1, <1>2 DEF QueueInv, ChainInv, DiskInv, jobVars
<1>7. StageInv'
  <2>1. \A c \in Client : cmd[c].own \subseteq Job
    BY DEF TypeInv, TypeOK, TaskTypes, Cmd
  <2>2. QED
    BY <1>1, <1>2, <2>1 DEF QueueInv, StageInv, jobVars
<1>8. QED
  BY <1>3, <1>4, <1>5, <1>6, <1>7 DEF QueueInv

\* A run ends: its job is settled and the jobs held on it are released or cancelled.
LEMMA FinishRunInv ==
    ASSUME TypeInv, TypeInv', QueueInv, NEW w \in Worker, NEW r \in Terminal,
           NEW offline \in BOOLEAN, wpc[w] \in SlotPc, FinishRun(w, r, offline)
    PROVE  QueueInv'
<1> DEFINE j == wjob[w]
           held == Held(j)
           go == r = "completed" /\ ~offline
           h == MinOf(held)
<1>1. /\ j \in Job /\ j # NoJob /\ status[j] = "running"
      /\ \A v \in Worker : v # w => wjob[v] # j
      /\ j \notin In(queue) /\ Placed(j)
  BY DEF TypeInv, TaskInv, QueueInv, StatusInv, PlaceInv, SlotPc, Job, NoJob, Placed
<1>2. /\ \A d \in held : /\ d \in Job /\ d \in known /\ status[d] = "queued" /\ d # j
                         /\ desc[d].dep = j
      /\ held \subseteq Job
  BY <1>1 DEF Held, Dependents, TypeInv, TypeOK, JobTypes
<1>3. \A d \in held : ~Placed(d) /\ ~released[d]
  BY <1>1, <1>2 DEF QueueInv, ChainInv, Past
<1>4. /\ status'[j] = r /\ r # "running" /\ (go => r = "completed")
      /\ \A i \in held : status'[i] = IF go THEN "queued" ELSE "cancelled"
      /\ \A i \in Job : i # j /\ i \notin held => status'[i] = status[i]
  BY <1>1, <1>2 DEF FinishRun, Terminal
<1>5. /\ \A v \in Worker : v # w => wpc'[v] = wpc[v] \/ (wpc[v] = "gate" /\ wpc'[v] = "woken")
      /\ wpc'[w] = "end" /\ wjob' = wjob
  BY WokenPc DEF FinishRun, Woken, TypeInv, TypeOK, WorkTypes
<1>6. /\ UNCHANGED <<next, desc, cmd, saveVars>>
      /\ known' \subseteq known
      /\ \A i \in Job : released'[i] => released[i] \/ (go /\ i \in held)
  BY PruneKeeps DEF FinishRun
<1>7. PICK S \in SUBSET held : /\ In(queue') = In(queue) \cup S /\ Distinct(queue')
                               /\ S # {} => go
  <2>1. CASE go /\ held # {}
    <3>1. h \in held /\ h \in Job /\ ~Placed(h)
      BY <1>2, <1>3, <2>1, MinInSet DEF Job
    <3>2. queue' = [queue EXCEPT ![LaneOfDesc(desc[h])] = Append(@, h)]
      BY <2>1 DEF FinishRun, Place
    <3>3. /\ queue \in [Lane -> Seq(Job)] /\ Distinct(queue) /\ h \notin In(queue)
          /\ LaneOfDesc(desc[h]) \in Lane
      BY <3>1, LaneTyped DEF TypeInv, TypeOK, WorkTypes, QueueInv, PlaceInv, Placed
    <3> HIDE DEF h, held
    <3>4. In(queue') = In(queue) \cup {h} /\ Distinct(queue')
      BY <3>1, <3>2, <3>3, InAppend
    <3>5. {h} \in SUBSET held
      BY <3>1
    <3>6. QED
      BY <2>1, <3>4, <3>5
  <2>2. CASE ~(go /\ held # {})
    <3>1. queue' = queue
      BY <2>2 DEF FinishRun
    <3>2. In(queue') = In(queue) \cup {} /\ Distinct(queue')
      BY <3>1 DEF QueueInv, PlaceInv
    <3>3. QED
      BY <3>2
  <2>3. QED
    BY <2>1, <2>2
<1> HIDE DEF j, held, go, h
<1>8. \A i \in Job : Placed(i)' <=> Placed(i) \/ i \in S
  BY <1>5, <1>7 DEF Placed
<1>9. FreshInv'
  <2>1. \A i \in Job : i >= next => i # j /\ i \notin held /\ i \notin S
    BY <1>1, <1>2, <1>7 DEF QueueInv, FreshInv
  <2>2. QED
    BY <1>4, <1>6, <1>8, <2>1 DEF QueueInv, FreshInv, saveVars
<1>10. PlaceInv'
  <2>1. \A v \in Worker : wjob[v] \notin S
    BY <1>3, <1>7 DEF Placed
  <2>2. wpc[w] # "idle"
    BY DEF SlotPc
  <2>3. QED
    BY <1>5, <1>7, <2>1, <2>2 DEF QueueInv, PlaceInv
<1>11. StatusInv'
  <2>1. \A i \in In(queue') : status'[i] \in Idling
    BY <1>1, <1>2, <1>4, <1>7, InTyped DEF QueueInv, StatusInv, Idling
  <2>2. \A v \in Worker : v # w /\ wpc[v] # "idle" => wjob[v] \in Job \ {j}
    BY <1>1 DEF TypeInv, TaskInv
  <2>3. \A v \in Worker : /\ wpc'[v] \in {"gate", "woken"} => status'[wjob'[v]] \in Idling
                          /\ wpc'[v] \in SlotPc => status'[wjob'[v]] = "running"
    <3>1. TAKE v \in Worker
    <3>2. CASE v = w
      BY <1>5, <3>2 DEF SlotPc
    <3>3. CASE v # w
      <4>1. wpc'[v] \in {"gate", "woken"} => wpc[v] \in {"gate", "woken"}
        BY <1>5, <3>3
      <4>2. wpc'[v] \in SlotPc => wpc[v] \in SlotPc
        BY <1>5, <3>3 DEF SlotPc
      <4>3. wpc[v] # "idle" => \/ status'[wjob[v]] = status[wjob[v]]
                               \/ status[wjob[v]] = "queued" /\ status'[wjob[v]] \in Idling
        BY <1>2, <1>4, <2>2, <3>3 DEF Idling
      <4>4. QED
        BY <1>5, <4>1, <4>2, <4>3 DEF QueueInv, StatusInv, SlotPc
    <3>4. QED
      BY <3>2, <3>3
  <2>4. \A i \in Job : status'[i] = "running" => OnLane(i)'
    <3>1. TAKE i \in Job
    <3>2. HAVE status'[i] = "running"
    <3>3. i # j /\ status[i] = "running"
      BY <1>4, <3>2
    <3>4. PICK v \in Worker : wjob[v] = i /\ wpc[v] \in {"begin", "prep", "proc", "swap"}
      BY <3>3 DEF QueueInv, StatusInv, OnLane
    <3>5. v # w
      BY <3>3, <3>4 DEF j
    <3>6. QED
      BY <1>5, <3>4, <3>5 DEF OnLane
  <2>5. QED
    BY <2>1, <2>3, <2>4 DEF StatusInv
<1>12. ChainInv'
  <2>1. SUFFICES ASSUME NEW d \in Job, desc[d].dep # NoJob, Placed(d)' \/ released'[d]
                 PROVE  status'[desc[d].dep] \in Past
    BY <1>6 DEF ChainInv
  <2>2. CASE d \in held
    <3>1. go
      BY <1>3, <1>6, <1>7, <1>8, <2>1, <2>2
    <3>2. QED
      BY <1>2, <1>4, <2>2, <3>1 DEF Past
  <2>3. CASE d \notin held
    <3>1. Placed(d) \/ released[d]
      BY <1>6, <1>7, <1>8, <2>1, <2>3
    <3>2. desc[d].dep \in Job /\ status[desc[d].dep] \in Past
      BY <2>1, <3>1, DepTyped DEF QueueInv, ChainInv
    <3>3. desc[d].dep \notin held /\ desc[d].dep # j
      BY <1>1, <1>2, <3>2 DEF Past
    <3>4. QED
      BY <1>4, <3>2, <3>3
  <2>4. QED
    BY <2>2, <2>3
<1>13. StageInv'
  <2>1. \A c \in Client : cmd[c].own \subseteq Job
    BY DEF TypeInv, TypeOK, TaskTypes, Cmd
  <2>2. \A c \in Client : Staging(cmd[c]) =>
           \A i \in cmd[c].own : ~Placed(i)' /\ status'[i] \in Idling
    <3>1. TAKE c \in Client
    <3>2. HAVE Staging(cmd[c])
    <3>3. TAKE i \in cmd[c].own
    <3>4. /\ i \in Job /\ ~Placed(i) /\ status[i] \in Idling /\ i # j
          /\ desc[i].dep \in cmd[c].own \cup {NoJob} /\ j \notin cmd[c].own
      BY <1>1, <2>1, <3>2 DEF QueueInv, StageInv
    <3>5. i \notin held
      BY <1>1, <1>2, <3>4
    <3>6. QED
      BY <1>4, <1>7, <1>8, <3>4, <3>5
  <2>3. QED
    BY <1>6, <2>2 DEF QueueInv, StageInv
<1>14. DiskInv'
  BY <1>6 DEF QueueInv, DiskInv, saveVars
<1>15. QED
  BY <1>9, <1>10, <1>11, <1>12, <1>13, <1>14 DEF QueueInv

-----------------------------------------------------------------------------
(* A restart *)

LEMMA InOrders ==
    ASSUME NEW S \in SUBSET Job, NEW s \in Orders(S)
    PROVE  /\ \A i \in 1..Len(s) : s[i] \in S
           /\ \A i, k \in 1..Len(s) : s[i] = s[k] => i = k
<1>1. PICK n \in 0..MaxJob : s \in [1..n -> S]
  BY DEF Orders
<1>2. n \in Nat /\ s \in Seq(S) /\ Len(s) = n /\ DOMAIN s = 1..n
  BY <1>1, BoundsAssumption
<1>3. \A i, k \in 1..n : i < k => s[i] < s[k]
  BY <1>2 DEF Orders
<1>4. \A i \in 1..n : s[i] \in S /\ s[i] \in Nat
  <2>1. \A j \in S : j \in Nat
    BY DEF Job
  <2>2. QED
    BY <1>1, <2>1
<1>5. QED
  BY <1>2, <1>3, <1>4

LEMMA RestartInv ==
    ASSUME TypeInv, TypeInv', QueueInv, ~TornWrites, Restart
    PROVE  QueueInv'
<1>1. /\ known' = {j \in Job : OnDisk(j)}
      /\ status' = [j \in Job |-> RestoredStatus(j)]
      /\ released' = [j \in Job |-> \/ disk[j].released
                                    \/ Requeued(j) /\ Satisfied(j) /\ desc[j].dep # NoJob]
      /\ wpc' = [v \in Worker |-> "idle"] /\ wjob' = [v \in Worker |-> NoJob]
      /\ cmd' = [c \in Client |-> IdleCmd]
      /\ left' = {} /\ blob' = [j \in Job |-> Absent]
      /\ UNCHANGED <<next, desc, disk>>
  BY DEF Restart
<1>2. PICK qc \in Orders(Restored("compile")), qu \in Orders(Restored("upload")),
           qt \in Orders(Restored("thread")) :
           queue' = [compile |-> qc, upload |-> qu, thread |-> qt]
  BY DEF Restart
<1>3. \A l \in Lane : \A i \in 1..Len(queue'[l]) :
        /\ queue'[l][i] \in Restored(l)
        /\ \A k \in 1..Len(queue'[l]) : queue'[l][i] = queue'[l][k] => i = k
  <2>1. \A l \in Lane : Restored(l) \in SUBSET Job
    BY DEF Restored
  <2>2. \A l \in Lane : queue'[l] \in Orders(Restored(l))
    BY <1>2 DEF Lane
  <2>3. QED
    BY <2>1, <2>2, InOrders
<1>4. Distinct(queue')
  BY <1>3 DEF Distinct, Restored
<1>5. \A j \in In(queue') : j \in Job /\ Requeued(j) /\ Satisfied(j)
  BY <1>3 DEF In, Restored
<1>6. \A j \in Job : Placed(j)' => Requeued(j) /\ Satisfied(j)
  BY <1>1, <1>5 DEF Placed, Job, NoJob
<1>7. FreshInv'
  <2>1. \A j \in Job : j >= next => disk[j] = Absent
    BY DEF QueueInv, FreshInv
  <2>2. \A j \in Job : j >= next =>
           ~OnDisk(j) /\ ~Requeued(j) /\ status'[j] = "none" /\ ~released'[j]
    BY <1>1, <2>1 DEF OnDisk, Requeued, RestoredStatus, Orphaned, Absent
  <2>3. IdleCmd.own = {}
    BY DEF IdleCmd
  <2>4. \A j \in Job : j >= next =>
           /\ j \notin known' /\ j \notin left' /\ status'[j] = "none" /\ ~released'[j]
           /\ ~Placed(j)' /\ \A c \in Client : j \notin cmd'[c].own
           /\ disk'[j] = Absent
    BY <1>1, <1>6, <2>1, <2>2, <2>3
  <2>5. QED
    BY <1>1, <2>4 DEF QueueInv, FreshInv
<1>8. PlaceInv'
  BY <1>1, <1>4, InTyped DEF PlaceInv, Job, NoJob
<1>9. StatusInv'
  <2>1. \A j \in In(queue') : status'[j] \in Idling
    BY <1>1, <1>5 DEF RestoredStatus, Idling
  <2>2. \A j \in Job : status'[j] # "running"
    BY <1>1 DEF RestoredStatus, Requeued
  <2>3. QED
    BY <1>1, <2>1, <2>2 DEF StatusInv, SlotPc
<1>10. ChainInv'
  <2>1. SUFFICES ASSUME NEW d \in Job, desc[d].dep # NoJob, Placed(d)' \/ released'[d]
                 PROVE  status'[desc[d].dep] \in Past
    BY <1>1 DEF ChainInv
  <2>2. desc[d].dep \in Job
    BY <2>1, DepTyped
  <2>3. disk[desc[d].dep].status = "completed" \/ disk[d].released
    BY <1>1, <1>6, <2>1 DEF Satisfied
  <2>4. disk[desc[d].dep].status \in Past
    BY <2>1, <2>3 DEF QueueInv, DiskInv, Past
  <2>5. QED
    BY <1>1, <2>2, <2>4 DEF RestoredStatus, Requeued, Orphaned, Past
<1>11. StageInv'
  BY <1>1 DEF StageInv, Staging, IdleCmd
<1>12. DiskInv'
  BY <1>1 DEF QueueInv, DiskInv
<1>13. QED
  BY <1>7, <1>8, <1>9, <1>10, <1>11, <1>12 DEF QueueInv

-----------------------------------------------------------------------------
(* The invariant holds *)

LEMMA InitInv == Init => QueueInv
<1>1. SUFFICES ASSUME Init PROVE QueueInv
  OBVIOUS
<1>2. In(queue) = {} /\ Distinct(queue)
  BY <1>1 DEF Init, In, Distinct
<1>3. \A j \in Job : ~Placed(j) /\ desc[j].dep = NoJob
  BY <1>1, <1>2 DEF Init, Placed, NoDesc, Job, NoJob
<1>4. FreshInv
  BY <1>1, <1>3 DEF Init, FreshInv, IdleCmd, Job
<1>5. PlaceInv /\ StatusInv
  BY <1>1, <1>2 DEF Init, PlaceInv, StatusInv, SlotPc, Job, NoJob
<1>6. ChainInv /\ StageInv /\ DiskInv
  BY <1>1, <1>3 DEF Init, ChainInv, StageInv, DiskInv, Staging, IdleCmd
<1>7. QED
  BY <1>4, <1>5, <1>6 DEF QueueInv

\* A process only restarts from snapshots that were serialised in one piece.
WholeSnapshots == TornWrites => MaxRestart = 0

LEMMA NextInv ==
    ASSUME WholeSnapshots, TypeInv, QueueInv, [Next]_vars
    PROVE  QueueInv'
<1>0. TypeInv'
  BY NextTypes
<1>1. CASE \E c \in Client : Request(c)
  <2>1. PICK c \in Client : Request(c)
    BY <1>1
  <2>2. CASE \E g \in Config : \/ Compile(c, g) \/ Upload(c, g) \/ Clean(c, g)
                               \/ AnalyzeMemory(c, g)
    BY <1>0, <2>2, SubmitOneInv DEF Compile, Upload, Clean, AnalyzeMemory
  <2>3. CASE \E g \in Config : Install(c, g)
    BY <1>0, <2>3, InstallInv
  <2>4. CASE ResetBuildEnv(c)
    BY <1>0, <2>4, ResetBuildEnvInv
  <2>5. CASE \/ \E g, n \in Config : Rename(c, g, n)
             \/ \E j \in Job : Cancel(c, j)
             \/ \E st \in ClearStatuses : Clear(c, st)
    BY <1>0, <2>5, RequestQuiet
  <2>6. QED
    BY <2>1, <2>2, <2>3, <2>4, <2>5 DEF Request
<1>2. CASE \E c \in Client : ClientStep(c)
  <2>1. PICK c \in Client : ClientStep(c)
    BY <1>2
  <2>2. CASE RenameLock(c)
    BY <1>0, <2>2, RequestQuiet, RenameLockInv
  <2>3. CASE \/ StageSaved(c) \/ StageFails(c) \/ CancelQueued(c) \/ CancelRunning(c)
             \/ CancelMissed(c) \/ Killed(c) \/ SweepDone(c) \/ CommitSaved(c)
    BY <1>0, <2>3, CallQuiet
  <2>4. CASE CancelSaved(c) \/ CancelSavedAgain(c)
    BY <1>0, <2>4, CancelSavedQuiet
  <2>5. CASE StageWritten(c) \/ ResetSwept(c)
    BY <1>0, <2>5, StageWrittenInv, ResetSweptInv
  <2>6. QED
    BY <2>1, <2>2, <2>3, <2>4, <2>5 DEF ClientStep
<1>3. CASE \E w \in Worker : WorkerStep(w)
  <2>1. PICK w \in Worker : WorkerStep(w)
    BY <1>3
  <2>2. CASE Take(w) \/ Recheck(w)
    BY <1>0, <2>2, TakeInv
  <2>3. CASE Begun(w) \/ Spawn(w) \/ ExitToEpilogue(w) \/ Ended(w)
    BY <1>0, <2>3, RunStepInv
  <2>4. CASE PrepFails(w) \/ EpilogueFails(w)
    BY <1>0, <2>4, FinishRunInv DEF PrepFails, EpilogueFails, SlotPc, Terminal
  <2>5. CASE \E ok, offline \in BOOLEAN : Exit(w, ok, offline)
    BY <1>0, <2>5, FinishRunInv DEF Exit, SlotPc, Terminal
  <2>6. CASE EpilogueDone(w)
    BY <1>0, <2>6, FinishRunInv DEF EpilogueDone, SlotPc, Terminal
  <2>7. QED
    BY <2>1, <2>2, <2>3, <2>4, <2>5, <2>6 DEF WorkerStep
<1>4. CASE SaveStep
  BY <1>0, <1>4, SaveStepInv
<1>5. CASE RevertStep
  BY <1>0, <1>5, RevertQuiet DEF RevertStep
<1>6. CASE Restart
  <2>1. ~TornWrites
    BY <1>6, BoundsAssumption DEF Restart, WholeSnapshots, TypeInv, TypeOK, HistTypes
  <2>2. QED
    BY <1>0, <1>6, <2>1, RestartInv
<1>7. CASE UNCHANGED vars
  <2>1. /\ UNCHANGED <<next, desc, released, queue, wjob, disk, known, left, blob, wpc, cmd>>
        /\ status' = status
    BY <1>7 DEF vars, jobVars, workVars, saveVars
  <2>2. QED
    BY <1>0, <2>1, QuietStep
<1>8. QED
  BY <1>1, <1>2, <1>3, <1>4, <1>5, <1>6, <1>7 DEF Next

LEMMA InvHolds == WholeSnapshots => (Spec => [](TypeInv /\ QueueInv))
<1>1. Init => TypeInv /\ QueueInv
  BY InitTypes, InitInv
<1>2. WholeSnapshots /\ TypeInv /\ QueueInv /\ [Next]_vars => TypeInv' /\ QueueInv'
  BY NextTypes, NextInv
<1>3. SUFFICES ASSUME WholeSnapshots PROVE Spec => [](TypeInv /\ QueueInv)
  OBVIOUS
<1>4. TypeInv /\ QueueInv /\ [Next]_vars => TypeInv' /\ QueueInv'
  BY <1>2, <1>3
<1>5. QED
  BY <1>1, <1>4, PTL DEF Spec

-----------------------------------------------------------------------------
(* The properties *)

\* With one snapshot per save, or no restart, the number of places of a job is 0 or 1 in
\* every reachable state: place_on_lane never leaves a job double-tracked.
THEOREM OnePlaceHolds == WholeSnapshots => (Spec => []OnePlace)
<1>1. ASSUME TypeInv, QueueInv
      PROVE  OnePlace
  <2>1. SUFFICES ASSUME NEW j \in Job PROVE Places(j) <= 1
    BY DEF OnePlace
  <2> DEFINE P == {p \in Lane \X (1..MaxJob) :
                      p[2] \in DOMAIN queue[p[1]] /\ queue[p[1]][p[2]] = j}
             W == {w \in Worker : wjob[w] = j}
  <2>2. \A p \in P : /\ p[1] \in Lane /\ p[2] \in 1..Len(queue[p[1]])
                     /\ queue[p[1]][p[2]] = j /\ p = <<p[1], p[2]>> /\ j \in In(queue)
    <3>1. TAKE p \in P
    <3>2. p[1] \in Lane /\ queue[p[1]] \in Seq(Job) /\ p = <<p[1], p[2]>>
      BY <1>1 DEF TypeInv, TypeOK, WorkTypes
    <3>3. p[2] \in 1..Len(queue[p[1]]) /\ queue[p[1]][p[2]] = j
      BY <3>2
    <3>4. QED
      BY <3>2, <3>3 DEF In
  <2>3. \A p, q \in P : p = q
    <3>1. TAKE p, q \in P
    <3>2. p[1] = q[1] /\ p[2] = q[2]
      BY <1>1, <2>2 DEF QueueInv, PlaceInv, Distinct
    <3>3. QED
      BY <2>2, <3>2
  <2>4. \A v, w \in W : v = w
    BY <1>1 DEF QueueInv, PlaceInv, Job, NoJob
  <2>5. P = {} \/ W = {}
    BY <1>1, <2>2 DEF QueueInv, PlaceInv
  <2>6. \A S : (\A x, y \in S : x = y) => Cardinality(S) \in {0, 1}
    <3>1. SUFFICES ASSUME NEW S, \A x, y \in S : x = y
                   PROVE  Cardinality(S) \in {0, 1}
      OBVIOUS
    <3>2. CASE S = {}
      BY <3>2, FS_EmptySet
    <3>3. CASE S # {}
      <4>1. PICK x \in S : TRUE
        BY <3>3
      <4>2. S = {x}
        BY <3>1, <4>1
      <4>3. QED
        BY <4>2, FS_Singleton
    <3>4. QED
      BY <3>2, <3>3
  <2>7. Cardinality(P) \in {0, 1} /\ Cardinality(W) \in {0, 1}
    BY <2>3, <2>4, <2>6
  <2>8. (P = {} => Cardinality(P) = 0) /\ (W = {} => Cardinality(W) = 0)
    BY FS_EmptySet
  <2>9. Cardinality(P) + Cardinality(W) <= 1
    <3> HIDE DEF P, W
    <3>1. QED
      BY <2>5, <2>7, <2>8
  <2>10. QED
    BY <2>9 DEF Places
<1>2. SUFFICES ASSUME WholeSnapshots PROVE Spec => []OnePlace
  OBVIOUS
<1>3. Spec => [](TypeInv /\ QueueInv)
  BY <1>2, InvHolds
<1>4. QED
  BY <1>1, <1>3, PTL

\* No chained job runs while its prerequisite is queued or running: nothing flashes a
\* device before its compile is over, whatever the crashes and restarts.
THEOREM FlashAfterBuildHolds == WholeSnapshots => (Spec => []FlashAfterBuild)
<1>1. ASSUME TypeInv, QueueInv
      PROVE  FlashAfterBuild
  <2>1. SUFFICES ASSUME NEW j \in Job, status[j] = "running", desc[j].dep # NoJob
                 PROVE  status[desc[j].dep] \in Past
    BY DEF FlashAfterBuild, Active, Past
  <2>2. Placed(j)
    BY <1>1, <2>1 DEF QueueInv, StatusInv, OnLane, Placed
  <2>3. QED
    BY <1>1, <2>1, <2>2 DEF QueueInv, ChainInv
<1>2. SUFFICES ASSUME WholeSnapshots PROVE Spec => []FlashAfterBuild
  OBVIOUS
<1>3. Spec => [](TypeInv /\ QueueInv)
  BY <1>2, InvHolds
<1>4. QED
  BY <1>1, <1>3, PTL

\* No step but a restart changes the status of a job that is over.
LEMMA FinishRunFacts ==
    ASSUME TypeInv, QueueInv, NEW w \in Worker, NEW r \in Terminal, NEW offline \in BOOLEAN,
           wpc[w] \in SlotPc, FinishRun(w, r, offline)
    PROVE  \E S \in SUBSET Job :
              /\ \A j \in S : status[j] \notin Terminal
              /\ \A j \in Job \ S : status'[j] = status[j] /\ ends'[j] = ends[j]
              /\ \A j \in S : status'[j] \in Terminal /\ ends'[j] = ends[j] + 1
<1> DEFINE j == wjob[w]
           go == r = "completed" /\ ~offline
           S == IF go THEN {j} ELSE {j} \cup Held(j)
<1>1. j \in Job /\ status[j] = "running"
  BY DEF TypeInv, TaskInv, QueueInv, StatusInv, SlotPc
<1>2. Held(j) \subseteq Job /\ \A d \in Held(j) : status[d] = "queued"
  BY DEF Held, Dependents, TypeInv, TypeOK, JobTypes
<1>3. S \in SUBSET Job /\ \A i \in S : status[i] \notin Terminal
  BY <1>1, <1>2 DEF Terminal
<1>4. /\ status' = [i \in Job |-> IF i = j THEN r
                                  ELSE IF i \in S THEN "cancelled" ELSE status[i]]
      /\ ends' = [i \in Job |-> IF i \in S THEN ends[i] + 1 ELSE ends[i]]
  BY DEF FinishRun
<1>5. j \in S
  OBVIOUS
<1> HIDE DEF j, S, go
<1>6. QED
  BY <1>3, <1>4, <1>5 DEF Terminal

LEMMA FinishSteps ==
    ASSUME NEW w \in Worker,
           \/ PrepFails(w) \/ EpilogueFails(w) \/ EpilogueDone(w)
           \/ \E ok, offline \in BOOLEAN : Exit(w, ok, offline)
    PROVE  /\ wpc[w] \in SlotPc /\ cmd' = cmd
           /\ \E r \in Terminal : \E offline \in BOOLEAN : FinishRun(w, r, offline)
<1>1. wpc[w] \in SlotPc
  BY DEF PrepFails, EpilogueFails, EpilogueDone, Exit, SlotPc
<1>2. \E r \in Terminal : \E offline \in BOOLEAN : FinishRun(w, r, offline)
  BY DEF PrepFails, EpilogueFails, EpilogueDone, Exit, Terminal
<1>3. QED
  BY <1>1, <1>2 DEF FinishRun

LEMMA CreateFacts ==
    ASSUME TypeInv, QueueInv, NEW c \in Client,
           \/ \E op, ty, g : SubmitOne(c, op, ty, g)
           \/ \E g : Install(c, g)
           \/ ResetBuildEnv(c)
           \/ RenameLock(c)
    PROVE  /\ \A j \in Job : status[j] # "none" => status'[j] = status[j]
           /\ \A j \in Job : status'[j] = status[j] \/ status'[j] = "queued"
           /\ \A b \in Client : cmd'[b].pc = "save1" => cmd'[b] = cmd[b]
           /\ ends' = ends
<1>1. next \in 1..(MaxJob + 1) /\ status \in [Job -> Status] /\ cmd \in [Client -> Cmd]
  BY DEF TypeInv, TypeOK, JobTypes, TaskTypes
<1>2. \A j \in Job : j >= next => status[j] = "none"
  BY DEF QueueInv, FreshInv
<1>3. CASE \E op, ty, g : SubmitOne(c, op, ty, g)
  <2>1. PICK op, ty, g : SubmitOne(c, op, ty, g)
    BY <1>3
  <2>2. /\ status' = [status EXCEPT ![next] = "queued"] /\ ends' = ends
        /\ cmd' = [cmd EXCEPT ![c] = Sweep(ActiveOf(g, {}), "save", {next})]
    BY <2>1 DEF SubmitOne, histVars
  <2>3. QED
    BY <1>1, <1>2, <2>2, SweepRecord DEF Job
<1>4. CASE \E g : Install(c, g)
  <2>1. PICK g : Install(c, g)
    BY <1>4
  <2>2. /\ status' = [status EXCEPT ![next] = "queued", ![next + 1] = "queued"]
        /\ ends' = ends
        /\ cmd' = [cmd EXCEPT ![c] = Sweep(ActiveOf(g, {}), "save", {next, next + 1})]
    BY <2>1 DEF Install, histVars
  <2>3. QED
    BY <1>1, <1>2, <2>2, SweepRecord DEF Job
<1>5. CASE ResetBuildEnv(c)
  <2>1. /\ status' = [status EXCEPT ![next] = "queued"] /\ ends' = ends
        /\ cmd' = [cmd EXCEPT ![c] = Sweep({j \in known : Active(j)}, "place", {next})]
    BY <1>5 DEF ResetBuildEnv, histVars
  <2>2. QED
    BY <1>1, <1>2, <2>1, SweepRecord DEF Job
<1>6. CASE RenameLock(c)
  <2>1. CASE UNCHANGED jobVars /\ cmd' = [cmd EXCEPT ![c] = IdleCmd]
    <3>1. IdleCmd.pc # "save1" /\ ends' = ends
      BY <1>6 DEF IdleCmd, RenameLock, histVars
    <3>2. QED
      BY <1>1, <2>1, <3>1 DEF jobVars
  <2>2. CASE /\ status' = [status EXCEPT ![next] = "queued", ![next + 1] = "queued"]
             /\ cmd' = [cmd EXCEPT ![c] =
                   [Sweep(ActiveOf(cmd[c].cfg, {}), "stage_save", {next, next + 1})
                    EXCEPT !.new = cmd[c].new]]
    <3>1. ends' = ends
      BY <1>6 DEF RenameLock, histVars
    <3>2. [Sweep(ActiveOf(cmd[c].cfg, {}), "stage_save", {next, next + 1})
           EXCEPT !.new = cmd[c].new].pc # "save1"
      BY DEF Sweep, IdleCmd
    <3>3. \A j \in Job : status'[j] = status[j] \/ (j >= next /\ status'[j] = "queued")
      BY <1>1, <2>2 DEF Job
    <3>4. \A b \in Client : cmd'[b].pc = "save1" => cmd'[b] = cmd[b]
      BY <1>1, <2>2, <3>2
    <3>5. QED
      BY <1>2, <3>1, <3>3, <3>4
  <2>3. QED
    BY <1>6, <2>1, <2>2 DEF RenameLock
<1>7. QED
  BY <1>3, <1>4, <1>5, <1>6

LEMMA ConsiderFacts ==
    ASSUME TypeInv, QueueInv, NEW w \in Worker, Take(w) \/ Recheck(w)
    PROVE  /\ \A j \in Job : status'[j] = status[j]
                             \/ (status[j] \in Idling \ Terminal /\ status'[j] = "running")
           /\ cmd' = cmd /\ ends' = ends
<1>1. \E j \in Job : status[j] \in Idling /\ Consider(w, j)
  <2>1. CASE Take(w)
    <3>1. /\ LaneOf[w] \in Lane /\ queue \in [Lane -> Seq(Job)] /\ queue[LaneOf[w]] # <<>>
          /\ Distinct(queue) /\ Consider(w, Head(queue[LaneOf[w]]))
      BY <2>1, TaskAssumption DEF Take, TypeInv, TypeOK, WorkTypes, QueueInv, PlaceInv
    <3>2. Head(queue[LaneOf[w]]) \in In(queue)
      BY <3>1, InTail
    <3>3. QED
      BY <3>1, <3>2, InTyped DEF QueueInv, StatusInv
  <2>2. CASE Recheck(w)
    BY <2>2 DEF Recheck, TypeInv, TaskInv, QueueInv, StatusInv
  <2>3. QED
    BY <2>1, <2>2
<1>2. PICK j \in Job : status[j] \in Idling /\ Consider(w, j)
  BY <1>1
<1>3. \/ UNCHANGED status
      \/ /\ status[j] = "queued"
         /\ status' = [status EXCEPT ![j] = "running"]
  BY <1>2 DEF Consider, Dropped, Idling
<1>4. cmd' = cmd /\ ends' = ends
  BY DEF Take, Recheck, histVars
<1>5. QED
  BY <1>3, <1>4 DEF TypeInv, TypeOK, JobTypes, Idling, Terminal

\* The steps that settle no job: what is over stays over, no terminal event is fired, and
\* no call starts to wait for the save of a cancel.
Calm == /\ \A j \in Job : status[j] \in Terminal => status'[j] = status[j]
        /\ \A c \in Client : cmd'[c].pc = "save1" =>
              cmd[c].pc = "save1" /\ cmd'[c].job = cmd[c].job
        /\ ends' = ends

LEMMA CalmSteps ==
    ASSUME TypeInv, QueueInv, [Next]_vars, ~Restart,
           ~\E c \in Client : CancelQueued(c) \/ CancelSaved(c),
           ~\E w \in Worker : \/ PrepFails(w) \/ EpilogueFails(w) \/ EpilogueDone(w)
                              \/ \E ok, offline \in BOOLEAN : Exit(w, ok, offline)
    PROVE  Calm
<1>0. cmd \in [Client -> Cmd]
  BY DEF TypeInv, TypeOK, TaskTypes
<1>1. CASE \E c \in Client : Request(c) \/ RenameLock(c)
  <2>1. PICK c \in Client : Request(c) \/ RenameLock(c)
    BY <1>1
  <2>2. CASE \/ \E op, ty, g : SubmitOne(c, op, ty, g)
             \/ \E g : Install(c, g)
             \/ ResetBuildEnv(c) \/ RenameLock(c)
    <3>1. /\ \A j \in Job : status[j] # "none" => status'[j] = status[j]
          /\ \A b \in Client : cmd'[b].pc = "save1" => cmd'[b] = cmd[b]
          /\ ends' = ends
      BY <2>2, CreateFacts
    <3>2. QED
      BY <3>1 DEF Calm, Terminal
  <2>3. CASE \E g, n \in Config : Rename(c, g, n)
    BY <1>0, <2>3 DEF Rename, Calm, IdleCmd, jobVars, histVars
  <2>4. CASE \E j \in Job : Cancel(c, j)
    <3>1. PICK j \in Job : Cancel(c, j)
      BY <2>4
    <3>2. cmd' = [cmd EXCEPT ![c] = Sweep({j}, "idle", {})] /\ status' = status /\ ends' = ends
      BY <3>1 DEF Cancel, jobVars, histVars
    <3>3. QED
      BY <1>0, <3>2, SweepRecord DEF Calm
  <2>5. CASE \E st \in ClearStatuses : Clear(c, st)
    BY <1>0, <2>5 DEF Clear, Calm, IdleCmd, histVars
  <2>6. QED
    BY <2>1, <2>2, <2>3, <2>4, <2>5 DEF Request, Compile, Upload, Clean, AnalyzeMemory
<1>2. CASE \E c \in Client : ClientStep(c) /\ ~RenameLock(c)
  <2>1. PICK c \in Client : ClientStep(c) /\ ~RenameLock(c)
    BY <1>2
  <2>2. cmd[c] \in Cmd
    BY <1>0
  <2>3. CASE StageSaved(c) \/ CancelRunning(c) \/ Killed(c) \/ ResetSwept(c)
    BY <1>0, <2>2, <2>3 DEF StageSaved, CancelRunning, Killed, ResetSwept, Calm, Cmd, jobVars,
       histVars
  <2>4. CASE StageWritten(c)
    <3>1. /\ cmd' = [cmd EXCEPT ![c] = Sweep(ActiveOf(cmd[c].new, cmd[c].own), "save",
                                             cmd[c].own)]
          /\ status' = status /\ ends' = ends
      BY <2>4 DEF StageWritten, jobVars, histVars
    <3>2. QED
      BY <1>0, <3>1, SweepRecord DEF Calm
  <2>5. CASE StageFails(c) \/ CommitSaved(c)
    BY <1>0, <2>5 DEF StageFails, CommitSaved, Calm, IdleCmd, jobVars, histVars
  <2>6. CASE CancelMissed(c) \/ SweepDone(c) \/ CancelSavedAgain(c)
    <3>1. status' = status /\ ends' = ends
      BY <2>6 DEF CancelMissed, SweepDone, CancelSavedAgain, jobVars, histVars
    <3>2. CASE CancelMissed(c)
      BY <1>0, <2>2, <3>1, <3>2 DEF CancelMissed, Sweeping, Calm, Cmd
    <3>3. CASE SweepDone(c)
      BY <1>0, <2>2, <3>1, <3>3 DEF SweepDone, Calm, Cmd, IdleCmd
    <3>4. CASE CancelSavedAgain(c)
      BY <1>0, <2>2, <3>1, <3>4 DEF CancelSavedAgain, CancelEnds, Calm, Cmd
    <3>5. QED
      BY <2>6, <3>2, <3>3, <3>4
  <2>7. QED
    BY <2>1, <2>3, <2>4, <2>5, <2>6 DEF ClientStep
<1>3. CASE \E w \in Worker : WorkerStep(w)
  <2>1. PICK w \in Worker : WorkerStep(w)
    BY <1>3
  <2>2. CASE Take(w) \/ Recheck(w)
    BY <2>2, ConsiderFacts DEF Calm
  <2>3. CASE Begun(w) \/ Spawn(w) \/ ExitToEpilogue(w) \/ Ended(w)
    BY <2>3 DEF Begun, Spawn, ExitToEpilogue, Ended, Calm, jobVars, histVars
  <2>4. QED
    BY <2>1, <2>2, <2>3 DEF WorkerStep
<1>4. CASE SaveStep \/ RevertStep \/ UNCHANGED vars
  BY <1>4 DEF SaveStep, SaveBegin, SaveJob, SaveWrite, RevertStep, RevertStart, RevertDone, vars,
     Calm, jobVars, histVars
<1>5. QED
  BY <1>1, <1>2, <1>3, <1>4 DEF Next

LEMMA CancelQueuedFacts ==
    ASSUME TypeInv, NEW c \in Client, CancelQueued(c)
    PROVE  \E j \in Job :
              /\ status[j] = "queued" /\ status' = [status EXCEPT ![j] = "cancelled"]
              /\ ends' = ends /\ cmd'[c].job = j
              /\ \A b \in Client : b # c => cmd'[b] = cmd[b]
<1> DEFINE j == MinOf(cmd[c].todo)
<1>1. cmd \in [Client -> Cmd] /\ cmd[c] \in Cmd
  BY DEF TypeInv, TypeOK, TaskTypes
<1>2. /\ j \in Job /\ status[j] = "queued" /\ status' = [status EXCEPT ![j] = "cancelled"]
      /\ ends' = ends /\ cmd' = [cmd EXCEPT ![c] = [@ EXCEPT !.pc = "save1", !.job = j]]
  BY DEF CancelQueued, histVars, TypeInv, TypeOK, JobTypes
<1>3. cmd'[c].job = j /\ \A b \in Client : b # c => cmd'[b] = cmd[b]
  BY <1>1, <1>2 DEF Cmd
<1>4. QED
  BY <1>2, <1>3

\* The cancel of cmd[c].job is told: one terminal event for it, one for each dependent.
LEMMA CancelSavedFacts ==
    ASSUME TypeInv, NEW c \in Client, CancelSaved(c)
    PROVE  /\ cmd[c].pc = "save1" /\ cmd'[c].pc # "save1"
           /\ \A b \in Client : b # c => cmd'[b] = cmd[b]
           /\ \E S \in SUBSET Job :
                 /\ \A i \in S : status[i] = "queued" /\ status'[i] = "cancelled"
                 /\ \A i \in Job \ S : status'[i] = status[i]
                 /\ ends' = [i \in Job |-> IF i = cmd[c].job \/ i \in S
                                           THEN ends[i] + 1 ELSE ends[i]]
<1> DEFINE j == cmd[c].job
<1>1. cmd \in [Client -> Cmd] /\ cmd[c] \in Cmd
  BY DEF TypeInv, TypeOK, TaskTypes
<1>2. cmd[c].pc = "save1" /\ cmd'[c].pc # "save1" /\ \A b \in Client : b # c => cmd'[b] = cmd[b]
  <2> DEFINE r == [cmd[c] EXCEPT !.pc = "cancel", !.job = NoJob,
                     !.todo = (cmd[c].todo \ {j}) \cup
                         (IF IsTail(j) /\ Active(desc[j].dep) THEN {desc[j].dep} ELSE {})]
             s == [cmd[c] EXCEPT !.pc = "save2"]
  <2>1. cmd' = [cmd EXCEPT ![c] = r] \/ cmd' = [cmd EXCEPT ![c] = s]
    BY DEF CancelSaved, CancelEnds
  <2>2. r.pc = "cancel" /\ s.pc = "save2"
    BY <1>1 DEF Cmd
  <2> HIDE DEF r, s
  <2>3. cmd'[c].pc # "save1" /\ \A b \in Client : b # c => cmd'[b] = cmd[b]
    BY <1>1, <2>1, <2>2
  <2>4. QED
    BY <2>3 DEF CancelSaved
<1>3. Held(j) \in SUBSET Job /\ \A i \in Held(j) : status[i] = "queued"
  BY DEF Held, Dependents, TypeInv, TypeOK, JobTypes
<1>4. /\ \A i \in Held(j) : status'[i] = "cancelled"
      /\ \A i \in Job \ Held(j) : status'[i] = status[i]
      /\ ends' = [i \in Job |-> IF i = j \/ i \in Held(j) THEN ends[i] + 1 ELSE ends[i]]
  BY <1>3 DEF CancelSaved
<1>5. QED
  BY <1>2, <1>3, <1>4

LEMMA NextEnds ==
    ASSUME TypeInv, TypeInv', QueueInv, EndsInv, [Next]_vars
    PROVE  EndsInv' /\ (restarts' = restarts =>
              \A j \in Job : status[j] \in Terminal => status'[j] = status[j])
<1>0. /\ cmd \in [Client -> Cmd] /\ ends \in [Job -> Nat] /\ status \in [Job -> Status]
      /\ \A c \in Client : cmd[c].pc = "save1" => cmd[c].job \in Job
      /\ ends' \in [Job -> Nat] /\ status' \in [Job -> Status]
  BY DEF TypeInv, TypeOK, TaskTypes, HistTypes, JobTypes, TaskInv, CmdInv
<1>1. CASE Calm
  <2>1. \A j \in Job : ends'[j] <= 1 /\ (status'[j] \notin Terminal => ends'[j] = 0)
    BY <1>1 DEF Calm, EndsInv
  <2>2. \A c \in Client : cmd'[c].pc = "save1" =>
           /\ status'[cmd'[c].job] = "cancelled" /\ ends'[cmd'[c].job] = 0
           /\ \A b \in Client : b # c /\ cmd'[b].pc = "save1" => cmd'[b].job # cmd'[c].job
    BY <1>0, <1>1 DEF Calm, EndsInv, Terminal
  <2>3. QED
    BY <1>1, <2>1, <2>2 DEF EndsInv, Calm
<1>2. CASE Restart
  <2>1. ends' = [j \in Job |-> 0] /\ cmd' = [c \in Client |-> IdleCmd]
    BY <1>2 DEF Restart
  <2>2. restarts' # restarts
    BY <1>2 DEF Restart, TypeInv, TypeOK, HistTypes
  <2>3. QED
    BY <2>1, <2>2 DEF EndsInv, IdleCmd
<1>3. CASE \E c \in Client : CancelQueued(c)
  <2>1. PICK c \in Client : CancelQueued(c)
    BY <1>3
  <2>2. PICK j \in Job :
              /\ status[j] = "queued" /\ status' = [status EXCEPT ![j] = "cancelled"]
              /\ ends' = ends /\ cmd'[c].job = j
              /\ \A b \in Client : b # c => cmd'[b] = cmd[b]
    BY <2>1, CancelQueuedFacts
  <2>3. status'[j] = "cancelled" /\ \A i \in Job : i # j => status'[i] = status[i]
    BY <1>0, <2>2
  <2>4. ends[j] = 0 /\ \A b \in Client : cmd[b].pc = "save1" => cmd[b].job # j
    BY <2>2 DEF EndsInv, Terminal
  <2>5. \A i \in Job : ends'[i] <= 1 /\ (status'[i] \notin Terminal => ends'[i] = 0)
    BY <2>2, <2>3 DEF EndsInv, Terminal
  <2>6. \A e \in Client : cmd'[e].pc = "save1" =>
           /\ status'[cmd'[e].job] = "cancelled" /\ ends'[cmd'[e].job] = 0
           /\ \A b \in Client : b # e /\ cmd'[b].pc = "save1" => cmd'[b].job # cmd'[e].job
    BY <1>0, <2>2, <2>3, <2>4 DEF EndsInv
  <2>7. QED
    BY <2>2, <2>3, <2>5, <2>6 DEF EndsInv, Terminal
<1>4. CASE \E c \in Client : CancelSaved(c)
  <2>1. PICK c \in Client : CancelSaved(c)
    BY <1>4
  <2>2. /\ cmd[c].pc = "save1" /\ cmd'[c].pc # "save1"
        /\ \A b \in Client : b # c => cmd'[b] = cmd[b]
    BY <2>1, CancelSavedFacts
  <2>3. PICK S \in SUBSET Job :
              /\ \A i \in S : status[i] = "queued" /\ status'[i] = "cancelled"
              /\ \A i \in Job \ S : status'[i] = status[i]
              /\ ends' = [i \in Job |-> IF i = cmd[c].job \/ i \in S
                                        THEN ends[i] + 1 ELSE ends[i]]
    BY <2>1, CancelSavedFacts
  <2>4. /\ cmd[c].job \in Job \ S /\ status[cmd[c].job] = "cancelled" /\ ends[cmd[c].job] = 0
        /\ \A i \in S : ends[i] = 0
    BY <1>0, <2>2, <2>3 DEF EndsInv, Terminal
  <2>5. \A i \in Job : ends'[i] <= 1 /\ (status'[i] \notin Terminal => ends'[i] = 0)
    <3>1. TAKE i \in Job
    <3>2. CASE i = cmd[c].job
      BY <1>0, <2>3, <2>4, <3>2 DEF Terminal
    <3>3. CASE i \in S
      BY <1>0, <2>3, <2>4, <3>3 DEF Terminal
    <3>4. CASE i # cmd[c].job /\ i \notin S
      BY <1>0, <2>3, <3>4 DEF EndsInv
    <3>5. QED
      BY <3>2, <3>3, <3>4
  <2>6. \A e \in Client : cmd'[e].pc = "save1" =>
           /\ status'[cmd'[e].job] = "cancelled" /\ ends'[cmd'[e].job] = 0
           /\ \A b \in Client : b # e /\ cmd'[b].pc = "save1" => cmd'[b].job # cmd'[e].job
    <3>1. TAKE e \in Client
    <3>2. HAVE cmd'[e].pc = "save1"
    <3>3. e # c /\ cmd'[e] = cmd[e]
      BY <2>2, <3>2
    <3>4. /\ cmd[e].job \in Job /\ status[cmd[e].job] = "cancelled" /\ ends[cmd[e].job] = 0
          /\ cmd[e].job # cmd[c].job
      BY <1>0, <2>2, <3>2, <3>3 DEF EndsInv
    <3>5. cmd[e].job \notin S
      BY <2>3, <3>4
    <3>6. status'[cmd[e].job] = "cancelled" /\ ends'[cmd[e].job] = 0
      BY <2>3, <3>4, <3>5
    <3>7. \A b \in Client : b # e /\ cmd'[b].pc = "save1" => cmd'[b].job # cmd[e].job
      BY <2>2, <3>2, <3>3 DEF EndsInv
    <3>8. QED
      BY <3>3, <3>6, <3>7
  <2>7. QED
    BY <2>3, <2>5, <2>6 DEF EndsInv, Terminal
<1>5. CASE \E w \in Worker : \/ PrepFails(w) \/ EpilogueFails(w) \/ EpilogueDone(w)
                             \/ \E ok, offline \in BOOLEAN : Exit(w, ok, offline)
  <2>1. PICK w \in Worker : \/ PrepFails(w) \/ EpilogueFails(w) \/ EpilogueDone(w)
                            \/ \E ok, offline \in BOOLEAN : Exit(w, ok, offline)
    BY <1>5
  <2>2. /\ wpc[w] \in SlotPc /\ cmd' = cmd
        /\ \E r \in Terminal : \E offline \in BOOLEAN : FinishRun(w, r, offline)
    BY <2>1, FinishSteps
  <2>3. PICK S \in SUBSET Job :
              /\ \A j \in S : status[j] \notin Terminal
              /\ \A j \in Job \ S : status'[j] = status[j] /\ ends'[j] = ends[j]
              /\ \A j \in S : status'[j] \in Terminal /\ ends'[j] = ends[j] + 1
    BY <2>2, FinishRunFacts
  <2>4. \A j \in S : ends[j] = 0
    BY <2>3 DEF EndsInv
  <2>5. \A i \in Job : ends'[i] <= 1 /\ (status'[i] \notin Terminal => ends'[i] = 0)
    BY <1>0, <2>3, <2>4 DEF EndsInv
  <2>6. \A e \in Client : cmd[e].pc = "save1" => cmd[e].job \in Job \ S
    BY <1>0, <2>3 DEF EndsInv, Terminal
  <2>7. QED
    BY <2>2, <2>3, <2>5, <2>6 DEF EndsInv
<1>6. QED
  BY <1>1, <1>2, <1>3, <1>4, <1>5, CalmSteps

LEMMA InitEnds == Init => EndsInv
BY DEF Init, EndsInv, IdleCmd

\* No terminal event is fired twice for a job, and none before the job is over, whether
\* it ends by its run, by a cancel or with its prerequisite.
THEOREM EndsOnceHolds == WholeSnapshots => (Spec => []EndsOnce)
<1>1. SUFFICES ASSUME WholeSnapshots PROVE Spec => []EndsOnce
  OBVIOUS
<1>2. Spec => [](TypeInv /\ QueueInv)
  BY <1>1, InvHolds
<1>3. TypeInv /\ QueueInv /\ (TypeInv /\ QueueInv)' /\ EndsInv /\ [Next]_vars => EndsInv'
  BY NextEnds
<1>4. Init => EndsInv
  BY InitEnds
<1>5. TypeInv /\ EndsInv => EndsOnce
  <2>1. SUFFICES ASSUME TypeInv, EndsInv, NEW j \in Job
                 PROVE  ends[j] <= 1 /\ (ends[j] = 1 => status[j] \in Terminal)
    BY DEF EndsOnce
  <2>2. QED
    BY <2>1 DEF EndsInv
<1>6. QED
  BY <1>2, <1>3, <1>4, <1>5, PTL DEF Spec

\* A job that is over keeps its outcome until the process restarts: no late exit, cancel,
\* cascade or lane entry changes it.
THEOREM TerminalStaysHolds == WholeSnapshots => (Spec => TerminalStays)
<1>1. SUFFICES ASSUME WholeSnapshots PROVE Spec => TerminalStays
  OBVIOUS
<1>2. Spec => [](TypeInv /\ QueueInv)
  BY <1>1, InvHolds
<1>3. TypeInv /\ QueueInv /\ (TypeInv /\ QueueInv)' /\ EndsInv /\ [Next]_vars => EndsInv'
  BY NextEnds
<1>4. TypeInv /\ QueueInv /\ (TypeInv /\ QueueInv)' /\ EndsInv /\ [Next]_vars
      => [restarts' = restarts =>
             \A j \in Job : status[j] \in Terminal => status'[j] = status[j]]_vars
  BY NextEnds
<1>5. Init => EndsInv
  BY InitEnds
<1>6. QED
  BY <1>2, <1>3, <1>4, <1>5, PTL DEF Spec, TerminalStays

-----------------------------------------------------------------------------
(* A running job holds a slot: needs no assumption on the snapshots *)

RunInv == \A j \in Job : status[j] = "running" => OnLane(j)

\* A step that starts no job and takes nobody out of a slot.
LEMMA RunKeeps ==
    ASSUME RunInv,
           \A j \in Job : status'[j] = "running" => status[j] = "running",
           \A w \in Worker : wpc[w] \in SlotPc => wpc'[w] \in SlotPc /\ wjob'[w] = wjob[w]
    PROVE  RunInv'
BY DEF RunInv, OnLane, SlotPc

LEMMA RunCreate ==
    ASSUME TypeInv, RunInv, NEW c \in Client,
           \/ \E op, ty, g : SubmitOne(c, op, ty, g)
           \/ \E g : Install(c, g)
           \/ ResetBuildEnv(c) \/ RenameLock(c)
    PROVE  RunInv'
<1>1. UNCHANGED <<wpc, wjob>>
  BY DEF SubmitOne, Install, ResetBuildEnv, RenameLock, workVars
<1>2. \/ status' = status
      \/ status' = [status EXCEPT ![next] = "queued"]
      \/ status' = [status EXCEPT ![next] = "queued", ![next + 1] = "queued"]
  BY DEF SubmitOne, Install, ResetBuildEnv, RenameLock, jobVars
<1>3. status \in [Job -> Status]
  BY DEF TypeInv, TypeOK, JobTypes
<1>4. \A j \in Job : status'[j] = "running" => status[j] = "running"
  BY <1>2, <1>3
<1>5. QED
  BY <1>1, <1>4, RunKeeps

LEMMA RunCall ==
    ASSUME TypeInv, RunInv, NEW c \in Client,
           Request(c) \/ ClientStep(c)
    PROVE  RunInv'
<1>1. CASE \/ \E op, ty, g : SubmitOne(c, op, ty, g)
           \/ \E g : Install(c, g)
           \/ ResetBuildEnv(c) \/ RenameLock(c)
  BY <1>1, RunCreate
<1>2. CASE \/ \E g, n \in Config : Rename(c, g, n)
           \/ \E j \in Job : Cancel(c, j)
           \/ \E st \in ClearStatuses : Clear(c, st)
           \/ StageSaved(c) \/ StageWritten(c) \/ StageFails(c)
           \/ CancelRunning(c) \/ CancelMissed(c) \/ Killed(c)
           \/ SweepDone(c) \/ ResetSwept(c) \/ CommitSaved(c)
  <2>1. UNCHANGED <<status, wpc, wjob>>
    BY <1>2 DEF Rename, Cancel, Clear, StageSaved, StageWritten, StageFails, CancelRunning,
       CancelMissed, Killed, SweepDone, ResetSwept, CommitSaved, jobVars, workVars
  <2>2. QED
    BY <2>1, RunKeeps
<1>3. CASE CancelQueued(c)
  <2>1. /\ \E j \in Job : status' = [status EXCEPT ![j] = "cancelled"]
        /\ UNCHANGED <<wpc, wjob>>
    BY <1>3, CancelQueuedFacts DEF CancelQueued, workVars
  <2>2. status \in [Job -> Status]
    BY DEF TypeInv, TypeOK, JobTypes
  <2>3. QED
    BY <2>1, <2>2, RunKeeps
<1>4. CASE CancelSaved(c) \/ CancelSavedAgain(c)
  <2>1. wpc' = Woken(wpc) /\ wjob' = wjob
    BY <1>4 DEF CancelSaved, CancelSavedAgain, CancelEnds
  <2>2. \A w \in Worker : wpc[w] \in SlotPc => wpc'[w] = wpc[w]
    BY <2>1, WokenPc DEF SlotPc, TypeInv, TypeOK, WorkTypes
  <2>3. \A j \in Job : status'[j] = "running" => status[j] = "running"
    BY <1>4, CancelSavedFacts DEF CancelSavedAgain, jobVars
  <2>4. QED
    BY <2>1, <2>2, <2>3, RunKeeps
<1>5. QED
  BY <1>1, <1>2, <1>3, <1>4 DEF Request, ClientStep, Compile, Upload, Clean, AnalyzeMemory

LEMMA RunConsider ==
    ASSUME TypeInv, RunInv, NEW w \in Worker, NEW j \in Job, wpc[w] \notin SlotPc,
           Consider(w, j)
    PROVE  RunInv'
<1>1. \A v \in Worker : v # w => wpc'[v] = wpc[v] /\ wjob'[v] = wjob[v]
  BY DEF Consider, TypeInv, TypeOK, WorkTypes
<1>2. CASE UNCHANGED status
  BY <1>1, <1>2, RunKeeps
<1>3. CASE /\ wpc' = [wpc EXCEPT ![w] = "begin"] /\ wjob' = [wjob EXCEPT ![w] = j]
           /\ status' = [status EXCEPT ![j] = "running"]
  <2>1. wpc'[w] = "begin" /\ wjob'[w] = j
    BY <1>3 DEF TypeInv, TypeOK, WorkTypes
  <2>2. SUFFICES ASSUME NEW i \in Job, status'[i] = "running" PROVE OnLane(i)'
    BY DEF RunInv
  <2>3. CASE i = j
    BY <2>1, <2>3 DEF OnLane
  <2>4. CASE i # j
    <3>1. status[i] = "running"
      BY <1>3, <2>2, <2>4 DEF TypeInv, TypeOK, JobTypes
    <3>2. PICK v \in Worker : wjob[v] = i /\ wpc[v] \in SlotPc
      BY <3>1 DEF RunInv, OnLane, SlotPc
    <3>3. v # w
      BY <3>2
    <3>4. QED
      BY <1>1, <3>2, <3>3 DEF OnLane, SlotPc
  <2>5. QED
    BY <2>3, <2>4
<1>4. QED
  BY <1>2, <1>3 DEF Consider

LEMMA RunFinish ==
    ASSUME TypeInv, RunInv, NEW w \in Worker, NEW r \in Terminal, NEW offline \in BOOLEAN,
           wpc[w] \in SlotPc, FinishRun(w, r, offline)
    PROVE  RunInv'
<1> DEFINE j == wjob[w]
<1>1. \A i \in Job : status'[i] = "running" => i # j /\ status[i] = "running"
  BY DEF FinishRun, Terminal
<1>2. wjob' = wjob /\ \A v \in Worker : v # w /\ wpc[v] \in SlotPc => wpc'[v] = wpc[v]
  BY WokenPc DEF FinishRun, Woken, SlotPc, TypeInv, TypeOK, WorkTypes
<1>3. SUFFICES ASSUME NEW i \in Job, status'[i] = "running" PROVE OnLane(i)'
  BY DEF RunInv
<1>4. i # j /\ status[i] = "running"
  BY <1>1, <1>3
<1>5. PICK v \in Worker : wjob[v] = i /\ wpc[v] \in SlotPc
  BY <1>4 DEF RunInv, OnLane, SlotPc
<1>6. v # w
  BY <1>4, <1>5
<1>7. QED
  BY <1>2, <1>5, <1>6 DEF OnLane, SlotPc

LEMMA RunNext ==
    ASSUME TypeInv, RunInv, [Next]_vars
    PROVE  RunInv'
<1>1. CASE \E c \in Client : Request(c) \/ ClientStep(c)
  BY <1>1, RunCall
<1>2. CASE \E w \in Worker : WorkerStep(w)
  <2>1. PICK w \in Worker : WorkerStep(w)
    BY <1>2
  <2>2. CASE Take(w)
    <3>1. LaneOf[w] \in Lane /\ queue \in [Lane -> Seq(Job)] /\ queue[LaneOf[w]] # <<>>
      BY <2>2, TaskAssumption DEF Take, TypeInv, TypeOK, WorkTypes
    <3>2. Head(queue[LaneOf[w]]) \in Job
      BY <3>1
    <3>3. wpc[w] \notin SlotPc /\ Consider(w, Head(queue[LaneOf[w]]))
      BY <2>2 DEF Take, SlotPc
    <3>4. QED
      BY <3>2, <3>3, RunConsider
  <2>3. CASE Recheck(w)
    BY <2>3, RunConsider DEF Recheck, SlotPc, TypeInv, TaskInv
  <2>4. CASE Begun(w) \/ Spawn(w) \/ ExitToEpilogue(w) \/ Ended(w)
    <3>1. /\ status' = status
          /\ \A v \in Worker : wpc[v] \in SlotPc => wpc'[v] \in SlotPc /\ wjob'[v] = wjob[v]
      BY <2>4 DEF Begun, Spawn, ExitToEpilogue, Ended, SlotPc, jobVars, TypeInv, TypeOK,
         WorkTypes
    <3>2. QED
      BY <3>1, RunKeeps
  <2>5. CASE \/ PrepFails(w) \/ EpilogueFails(w) \/ EpilogueDone(w)
             \/ \E ok, offline \in BOOLEAN : Exit(w, ok, offline)
    BY <2>5, FinishSteps, RunFinish
  <2>6. QED
    BY <2>1, <2>2, <2>3, <2>4, <2>5 DEF WorkerStep
<1>3. CASE SaveStep \/ RevertStep \/ UNCHANGED vars
  <2>1. UNCHANGED <<status, wpc, wjob>>
    BY <1>3 DEF SaveStep, SaveBegin, SaveJob, SaveWrite, RevertStep, RevertStart, RevertDone,
       vars, jobVars, workVars
  <2>2. QED
    BY <2>1, RunKeeps
<1>4. CASE Restart
  BY <1>4 DEF Restart, RestoredStatus, Requeued, RunInv
<1>5. QED
  BY <1>1, <1>2, <1>3, <1>4 DEF Next

\* A job that runs holds a slot of a lane, so jobs.cancel finds it there: whatever the
\* snapshots mix and however often the process restarts.
THEOREM RunningHoldsSlotHolds == Spec => []RunningHoldsSlot
<1>1. Init => TypeInv /\ RunInv
  BY InitTypes DEF Init, RunInv
<1>2. (TypeInv /\ RunInv) /\ [Next]_vars => (TypeInv /\ RunInv)'
  BY NextTypes, RunNext
<1>3. TypeInv /\ RunInv => RunningHoldsSlot
  BY DEF RunInv, RunningHoldsSlot, TypeInv, TypeOK, JobTypes
<1>4. QED
  BY <1>1, <1>2, <1>3, PTL DEF Spec
=============================================================================
