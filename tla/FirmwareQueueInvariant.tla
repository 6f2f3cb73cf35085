------------------------ MODULE FirmwareQueueInvariant ------------------------
(***************************************************************************)
(* The inductive invariant behind the safety properties of FirmwareQueue:  *)
(* what ties the status of a job to the lane or worker that has it, to its *)
(* prerequisite, to the call that created it and to the snapshot on disk.  *)
(***************************************************************************)
EXTENDS FirmwareQueue

SlotPc == {"begin", "prep", "proc", "swap"}
Past   == {"completed", "none"}
Idling == {"queued", "cancelled"}

\* The jobs on the lanes q, and that no job is on them twice.
In(q) == {j \in Job : \E l \in Lane : \E i \in 1..Len(q[l]) : q[l][i] = j}
Distinct(q) ==
    \A l, m \in Lane : \A i \in 1..Len(q[l]), k \in 1..Len(q[m]) :
        q[l][i] = q[m][k] => l = m /\ i = k

\* A lane or a worker has the job.
Placed(j) == j \in In(queue) \/ \E w \in Worker : wjob[w] = j

\* A call that has created jobs which it will place later (a rename before its YAML is
\* written, a reset before its sweep is over).
Staging(r) ==
    \/ r.pc \in {"stage_save", "stage_write"}
    \/ r.pc \in {"cancel", "save1", "save2", "kill"} /\ r.then \in {"stage_save", "place"}

\* Ids that were not handed out are unused everywhere.
FreshInv ==
    /\ \A j \in Job : j >= next =>
        /\ j \notin known /\ j \notin left /\ status[j] = "none" /\ ~released[j]
        /\ ~Placed(j) /\ \A c \in Client : j \notin cmd[c].own
        /\ ~TornWrites => disk[j] = Absent
    /\ \A j \in Job : j < next => desc[j].dep < next

\* No job is in two places.
PlaceInv ==
    /\ Distinct(queue)
    /\ \A w \in Worker : wpc[w] = "idle" => wjob[w] = NoJob
    /\ \A w \in Worker : wjob[w] \notin In(queue)
    /\ \A v, w \in Worker : v # w /\ wjob[v] = wjob[w] => wjob[v] = NoJob

\* Where a job is tells its status.
StatusInv ==
    /\ \A j \in In(queue) : status[j] \in Idling
    /\ \A w \in Worker : wpc[w] \in {"gate", "woken"} => status[wjob[w]] \in Idling
    /\ \A w \in Worker : wpc[w] \in SlotPc => status[wjob[w]] = "running"
    /\ \A j \in Job : status[j] = "running" => OnLane(j)

\* A chained job gets a place, or is released, only when its prerequisite completed (or
\* did, and a restart found no record of it any more).
ChainInv ==
    \A d \in Job : desc[d].dep # NoJob /\ (Placed(d) \/ released[d])
                   => status[desc[d].dep] \in Past

\* The jobs a call stages have no place yet and no other call stages them.
StageInv ==
    \A c \in Client : Staging(cmd[c]) =>
        /\ \A j \in cmd[c].own : /\ ~Placed(j) /\ status[j] \in Idling
                                 /\ desc[j].dep \in cmd[c].own \cup {NoJob}
                                 /\ cmd[c].then = "place" => desc[j].dep = NoJob
        /\ \A b \in Client : b # c /\ Staging(cmd[b]) => cmd[b].own \cap cmd[c].own = {}

\* In a snapshot taken in one piece the prerequisite of a released job completed, or was
\* pruned.
DiskInv ==
    ~TornWrites => \A d \in Job :
        /\ blob[d] = Absent
        /\ desc[d].dep # NoJob /\ disk[d].released => disk[desc[d].dep].status \in Past

\* The places, statuses, chains and snapshots of all jobs agree, in every reachable state:
\* what cancel, the lanes, the gate, the rename and load_jobs each rely on.
QueueInv == FreshInv /\ PlaceInv /\ StatusInv /\ ChainInv /\ StageInv /\ DiskInv

\* Terminal events: fired for jobs that are over, and a cancel that waits for its save is
\* the only one to fire its job's.
EndsInv ==
    /\ \A j \in Job : ends[j] <= 1 /\ (status[j] \notin Terminal => ends[j] = 0)
    /\ \A c \in Client : cmd[c].pc = "save1" =>
        /\ status[cmd[c].job] = "cancelled" /\ ends[cmd[c].job] = 0
        /\ \A b \in Client : b # c /\ cmd[b].pc = "save1" => cmd[b].job # cmd[c].job
\* What a call in flight still owes the jobs it stops, and which of its records can stage
\* a rename (see OneChainPerDevice).
SweepPc == {"cancel", "save1", "save2", "kill"}
CallTracks(r, st, req) ==
    /\ r.pc \in {"save1", "save2"} => st[r.job] \in Terminal
    /\ r.pc = "kill" => r.job \in req \/ st[r.job] \in Terminal
    /\ r.pc \notin SweepPc => r.todo = {}
    /\ r.own # {} /\ r.new # NoConfig =>
          r.then = "stage_save" /\ r.pc \in SweepPc \cup {"stage_save", "stage_write"}

\* Every job a call still has to stop is in its sweep, the two jobs a call creates are one
\* chain, and until the first restart a device has one chain.
DeviceInv ==
    /\ \A c \in Client : CallTracks(cmd[c], status, cancelReq)
    /\ \A c \in Client : \A i, j \in cmd[c].own : i < j => desc[j].dep = i
    /\ OneChainPerDevice

\* A job that runs, will run from where it is, or waits for its call to place it is in the
\* map (unless live jobs are cleared: LiveKept).
Awaited(j) == \E c \in Client : Staging(cmd[c]) /\ j \in cmd[c].own
Needed(j)  == status[j] = "running" \/ (status[j] = "queued" /\ (Placed(j) \/ Awaited(j)))
KnownInv   == \A j \in Job : Needed(j) => j \in known
\* firmware/clear is not called with a status of live jobs.
LiveKept == ClearStatuses \cap {"queued", "running"} = {}

\* An active wipe and a flash that runs from its tree: the flash is being stopped.
WipeInv ==
    \A i, f \in Job :
        Active(i) /\ WipesTree(i) /\ IsFlash(f) /\ status[f] = "running"
        /\ (desc[i].type = "reset" \/ desc[i].cfg = FlashOf(f))
        => BeingStopped(f)

\* The persist lock: its owner is at a save, and what it has serialised is gone with it.
SavePc  == {"save1", "save2", "stage_save", "save"}
LockInv ==
    /\ \A c \in Client : holder = c => cmd[c].pc \in SavePc
    /\ saved => holder # NoOne
    /\ holder = NoOne \/ saved => blob = [j \in Job |-> Absent] /\ left = {}
\* What the write of the save in progress will say of j.
Live(st)  == st \in {"queued", "running"}
WillBe(j) == j \in left \/ Live(blob[j].status)

\* A job whose submission returned is on disk, and in every snapshot from then on; so is
\* one whose call waits for its save.
AckedInv ==
    /\ \A j \in Job : j >= next => j \notin acked
    /\ \A j \in acked : Active(j) /\ desc[j].type # "analyze" =>
          Requeued(j) /\ (holder # NoOne /\ ~saved => WillBe(j))
    /\ \A c \in Client : holder = c /\ cmd[c].pc = "save" =>
          \A j \in cmd[c].own : Active(j) /\ desc[j].type # "analyze" =>
             IF saved THEN Requeued(j) ELSE WillBe(j)

\* A job whose cancel was told is over, on disk too; so is one whose cancel waits for its save.
ToldInv ==
    /\ \A j \in told : j < next /\ ~Live(status[j]) /\ ~Requeued(j) /\ ~Live(blob[j].status)
    /\ \A c \in Client : holder = c /\ cmd[c].pc = "save1" =>
          IF saved THEN ~Requeued(cmd[c].job) ELSE ~Live(blob[cmd[c].job].status)

StagePc == {"stage_save", "stage_write"}
\* The chains of renames that are active touch no file of each other, unless they rename the
\* same device; who writes a YAML file, or removes one again, holds rename_fs_lock.
RenameInv ==
    /\ \A c \in Client : cmd[c].pc = "fs_lock" => cmd[c].cfg \in Config /\ cmd[c].cfg # cmd[c].new
    /\ \A c \in Client : cmd[c].pc \in {"save1", "save2"} => status[cmd[c].job] = "cancelled"
    /\ \A c \in Client : cmd[c].pc \in StagePc => cmd[c].then = "stage_save"
    /\ \A c \in Client : cmd[c].then = "stage_save" =>
          /\ cmd[c].pc \in SweepPc \cup StagePc /\ fsLock = c
          /\ \E t \in cmd[c].own : IsTail(t)
          /\ \A t \in cmd[c].own : IsTail(t) => desc[t].new = cmd[c].new
    /\ \A t \in Job : IsTail(t) => /\ t < next /\ desc[t].cfg # desc[t].new
                                   /\ desc[t].cfg \in Config /\ desc[t].new \in Config
    /\ \A s, t \in Job : /\ IsTail(s) /\ Active(s) /\ IsTail(t) /\ Active(t)
                         /\ desc[s].cfg # desc[t].cfg
                         => Touches(desc[s]) \cap Touches(desc[t]) = {}
    /\ \A t \in reverts : IsTail(t) /\ status[t] \in {"failed", "cancelled"}
    /\ fsLock \in Job => fsLock \in reverts /\ ~TargetOwned(fsLock)

\* Whoever removes the YAML under a new name again: the revert of the chain, or the call
\* that cancelled it and is about to schedule the revert; or nobody has to.
Undoes(t) ==
    \/ status[t] = "completed" \/ t \in reverts
    \/ \E c \in Client : cmd[c].pc \in {"save1", "save2"} /\ cmd[c].job = t

\* A file under the new name of a rename is there for a chain that is active, went through
\* or will be undone; a call that stages one has it undone when it is cancelled meanwhile.
FilesInv ==
    /\ \A t \in Job : IsTail(t) /\ Active(t) /\ Staged(t) => desc[t].new \in files
    /\ \A c \in Client : cmd[c].then = "stage_save" =>
          \A t \in cmd[c].own : IsTail(t) => Undoes(t) \/ Active(t)
    /\ \A n \in files :
          \/ /\ \A t \in Job : IsTail(t) => desc[t].new # n
             /\ \A c \in Client : cmd[c].pc = "fs_lock" => cmd[c].new # n
          \/ \E t \in Job : /\ IsTail(t) /\ desc[t].new = n
                            /\ Undoes(t) \/ (Active(t) /\ Staged(t))
YamlInv == restarts = 0 => RenameInv /\ FilesInv
-----------------------------------------------------------------------------
(* What the queue promises: see JobLifecycle *)

Lifecycle == INSTANCE JobLifecycle
    WITH stage <- status, dep <- [j \in Job |-> desc[j].dep], told <- ends

\* Whatever lanes, workers, calls and saves do, the jobs go through JobLifecycle: none
\* runs twice or before its prerequisite completed, each ends once and says so once.
ImplementsLifecycle == Lifecycle!Spec
=============================================================================
