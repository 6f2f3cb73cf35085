---------------------------- MODULE FirmwareQueue ----------------------------
(***************************************************************************)
(* The firmware job queue of the device builder for jobs built on this     *)
(* dashboard: controllers/firmware/{_state, factories, jobs, lifecycle,    *)
(* runner, persistence, rename_flow}.py and models/firmware.py.            *)
(*                                                                         *)
(* API calls (clients) create jobs and chains of two jobs, supersede the   *)
(* older jobs of the same device, and cancel; lane workers take jobs from  *)
(* FIFO lanes and run one subprocess each; every transition is saved under *)
(* one lock by an executor thread; the process may die and load the jobs   *)
(* again.  All of it runs on one event loop: the code between two awaits   *)
(* is one step, and every await is a point where any other task may run.   *)
(***************************************************************************)
EXTENDS Integers, Sequences, FiniteSets

CONSTANTS
    MaxJob,        \* bound: jobs ever created
    MaxRestart,    \* bound: restarts of the process
    Config,        \* device configurations (YAML file names)
    NoConfig,      \* the empty configuration of a RESET_BUILD_ENV job
    InitFiles,     \* the configurations whose YAML exists at the start
    ThreadConfig,  \* devices that load openthread
    Client,        \* API calls in flight at the same time
    Worker,        \* lane workers
    LaneOf,        \* the lane each worker drains
    NoOne,         \* the owner of a free lock
    Ops,           \* the API calls the clients make
    ClearStatuses, \* what firmware/clear is called with
    PrimaryCap,    \* _MAX_PRIMARY_TERMINAL_JOBS
    AuxCap,        \* _MAX_AUX_TERMINAL_JOBS
    TornWrites     \* the executor may serialise the jobs one by one

Job       == 1..MaxJob
NoJob     == 0
Lane      == {"compile", "upload", "thread"}
\* lane_for: builds share one lane, network flashes go by the device's radio.
LaneOfDesc(d) == IF ~(d.type = "upload" \/ (d.type = "rename" /\ d.dep # NoJob)) THEN "compile"
                 ELSE IF d.cfg \in ThreadConfig THEN "thread" ELSE "upload"
JobType   == {"compile", "upload", "clean", "reset", "rename", "analyze"}
Terminal  == {"completed", "failed", "cancelled"}
Status    == {"none", "queued", "running"} \cup Terminal
DiskRec   == [status : Status, released : BOOLEAN]
JobDesc   == [type : JobType, cfg : Config \cup {NoConfig},
              new : Config \cup {NoConfig}, dep : Job \cup {NoJob}]
Proc      == Client \cup Worker
OpName    == {"compile", "upload", "install", "clean", "reset", "rename",
              "analyze", "cancel", "clear"}

ASSUME BoundsAssumption ==
    /\ MaxJob \in Nat \ {0} /\ MaxRestart \in Nat
    /\ PrimaryCap \in Nat /\ AuxCap \in Nat /\ TornWrites \in BOOLEAN
ASSUME ConfigAssumption ==
    /\ NoConfig \notin Config /\ ThreadConfig \subseteq Config
    /\ InitFiles \subseteq Config
ASSUME TaskAssumption ==
    /\ Client \cap Worker = {} /\ NoOne \notin Proc /\ Proc \cap Job = {}
    /\ NoOne \notin Job
    /\ LaneOf \in [Worker -> Lane] /\ Ops \subseteq OpName
    /\ ClearStatuses \subseteq {"finished", "queued", "running"} \cup Terminal

VARIABLES
    next,      \* the next job id to hand out (created_at order)
    known,     \* state.jobs: the ids in the job map
    desc,      \* what a job is; never changes after its creation
    status,    \* FirmwareJob.status, of the object (it may outlive the map entry)
    released,  \* FirmwareJob.dependency_released
    queue,     \* Lane.queue
    wpc,       \* where each lane worker is
    wjob,      \* the job it holds
    cancelReq, \* state.cancel_requested
    cmd,       \* the API call each client has in flight
    holder,    \* who owns the persist lock
    left,      \* the snapshot's jobs not serialised yet
    blob,      \* the jobs serialised so far
    saved,     \* the write has landed, its caller has not resumed
    disk,      \* the _firmware_jobs entry of .device-builder.json
    files,     \* YAML files in the configuration directory
    fsLock,    \* who owns state.rename_fs_lock
    reverts,   \* rename tails with a scheduled revert task
    restarts,  \* restarts so far (bound)
    acked,     \* history: jobs whose submission returned to the caller
    told,      \* history: queued jobs whose JOB_CANCELLED was fired by cancel
    ends       \* history: terminal events fired per job, in this process

jobVars  == <<next, known, desc, status, released>>
workVars == <<queue, wpc, wjob>>
saveVars == <<holder, left, blob, saved, disk>>
fileVars == <<files, fsLock, reverts>>
histVars == <<acked, told, ends>>
vars == <<jobVars, workVars, cancelReq, cmd, saveVars, fileVars, restarts, histVars>>

-----------------------------------------------------------------------------
(* Jobs *)

Absent  == [status |-> "none", released |-> FALSE]
NoDesc  == [type |-> "compile", cfg |-> NoConfig, new |-> NoConfig, dep |-> NoJob]
IdleCmd == [pc |-> "idle", then |-> "idle", todo |-> {}, job |-> NoJob, own |-> {},
            cfg |-> NoConfig, new |-> NoConfig]

Active(j)     == j \in known /\ status[j] \in {"queued", "running"}
IsTail(j)     == desc[j].type = "rename" /\ desc[j].dep # NoJob
IsFlash(j)    == desc[j].type = "upload" \/ IsTail(j)
WipesTree(j)  == desc[j].type \in {"clean", "reset"}
FlashOf(j)    == IF IsTail(j) THEN desc[j].new ELSE desc[j].cfg
Touches(d)    == {d.cfg, d.new} \ {NoConfig}
Dependents(j) == {d \in known : desc[d].dep = j}
BugHeldAny(j) == Dependents(j)
Held(j)       == {d \in Dependents(j) : status[d] = "queued"}
MinOf(S)      == CHOOSE i \in S : \A k \in S : i <= k

BugUploadBlocked(j) == IsFlash(j) /\ \E o \in known : Active(o) /\ desc[o].type = "reset"
\* upload_blocked: a clean or reset that wipes the tree this flash reads is active.
UploadBlocked(j) ==
    /\ IsFlash(j)
    /\ \E o \in known : /\ Active(o) /\ WipesTree(o)
                        /\ desc[o].type = "reset" \/ desc[o].cfg = FlashOf(j)

\* check_rename_lock: another active rename has one of d's files.
RenameLocked(d) ==
    \E a \in known : /\ Active(a) /\ desc[a].type = "rename"
                     /\ ~(d.type = "rename" /\ d.cfg = desc[a].cfg)
                     /\ Touches(d) \cap Touches(desc[a]) # {}

\* prune_history over the map K with statuses st: the ids that stay.
Newest(S, n) == {j \in S : Cardinality({i \in S : i > j}) < n}
Prune(K, st) ==
    LET over(j)    == st[j] \in Terminal
        primary    == {j \in K : over(j) /\ desc[j].type \in {"compile", "upload"}}
        aux        == {j \in K : over(j) /\ desc[j].type \in {"clean", "reset", "rename"}}
        deduped    == {j \in primary : \A i \in primary :
                          i > j => <<desc[i].cfg, desc[i].type>> # <<desc[j].cfg, desc[j].type>>}
    IN  {j \in K : ~over(j)} \cup Newest(deduped, PrimaryCap) \cup Newest(aux, AuxCap)

BugWoken(pc) == pc
\* build_gate.set(): every worker parked at the gate looks again.
Woken(pc) == [w \in Worker |-> IF pc[w] = "gate" THEN "woken" ELSE pc[w]]

\* lane.active: the job holds a slot of its lane.
OnLane(j) == \E w \in Worker : wjob[w] = j /\ wpc[w] \in {"begin", "prep", "proc", "swap"}
\* A live subprocess works for j (state.spawns).
Spawned(j) == \E w \in Worker : wjob[w] = j /\ wpc[w] = "proc"

-----------------------------------------------------------------------------
Init ==
    /\ next = 1 /\ known = {}
    /\ desc = [j \in Job |-> NoDesc]
    /\ status = [j \in Job |-> "none"]
    /\ released = [j \in Job |-> FALSE]
    /\ queue = [l \in Lane |-> <<>>]
    /\ wpc = [w \in Worker |-> "idle"] /\ wjob = [w \in Worker |-> NoJob]
    /\ cancelReq = {}
    /\ cmd = [c \in Client |-> IdleCmd]
    /\ holder = NoOne /\ left = {} /\ blob = [j \in Job |-> Absent] /\ saved = FALSE
    /\ disk = [j \in Job |-> Absent]
    /\ files = InitFiles /\ fsLock = NoOne /\ reverts = {}
    /\ restarts = 0
    /\ acked = {} /\ told = {} /\ ends = [j \in Job |-> 0]

-----------------------------------------------------------------------------
(* Saving: persist_jobs under controller._persist_lock *)

WantsSave(p) ==
    \/ p \in Client /\ cmd[p].pc \in {"save1", "save2", "stage_save", "save"}
    \/ p \in Worker /\ wpc[p] \in {"begin", "end"}

\* The lock is taken and the snapshot of job objects is made under it.
SaveBegin(p) ==
    /\ WantsSave(p) /\ holder = NoOne
    /\ holder' = p
    /\ left' = {j \in known : desc[j].type # "analyze"}
    /\ UNCHANGED <<blob, saved, disk, jobVars, workVars, cancelReq, cmd, fileVars, restarts,
                   histVars>>

\* The executor thread serialises one live job object while the loop runs on.
SaveJob ==
    /\ TornWrites /\ holder # NoOne /\ ~saved /\ left # {}
    /\ LET j == MinOf(left)
       IN  /\ blob' = [blob EXCEPT ![j] = [status |-> status[j], released |-> released[j]]]
           /\ left' = left \ {j}
    /\ UNCHANGED <<holder, saved, disk, jobVars, workVars, cancelReq, cmd, fileVars, restarts,
                   histVars>>

\* The metadata file is replaced atomically.
SaveWrite ==
    /\ holder # NoOne /\ ~saved
    /\ TornWrites => left = {}
    /\ disk' = [j \in Job |-> IF j \in left
                              THEN [status |-> status[j], released |-> released[j]]
                              ELSE blob[j]]
    /\ saved' = TRUE /\ left' = {} /\ blob' = [j \in Job |-> Absent]
    /\ UNCHANGED <<holder, jobVars, workVars, cancelReq, cmd, fileVars, restarts, histVars>>

BugSaveReturns(p) == holder = p /\ holder' = NoOne /\ UNCHANGED <<left, blob, saved, disk>>
\* The caller's await on persist_jobs returns.
SaveReturns(p) ==
    /\ holder = p /\ saved
    /\ holder' = NoOne /\ saved' = FALSE
    /\ UNCHANGED <<left, blob, disk>>

-----------------------------------------------------------------------------
(* Submitting: create_job + commit_chain *)

BugNewJob(ty, g, n, d) == [type |-> ty, cfg |-> g, new |-> d, dep |-> n]
NewJob(ty, g, n, d) == [type |-> ty, cfg |-> g, new |-> n, dep |-> d]

BugActiveOf(g, except) == {j \in known \ except : status[j] = "queued" /\ desc[j].cfg = g}
\* The older active jobs that supersede_active_jobs will cancel for a device.
ActiveOf(g, except) == {j \in known \ except : Active(j) /\ desc[j].cfg = g}

\* Cancel the jobs in todo one by one, then go to the next stage of the call.
Sweep(todo, then, own) == [IdleCmd EXCEPT !.pc = "cancel", !.then = then, !.todo = todo,
                                          !.own = own]

CanCreate(c, op, n) == op \in Ops /\ cmd[c].pc = "idle" /\ next + n <= MaxJob + 1

\* place_on_lane for a job whose prerequisite is met.
Place(q, j) == [q EXCEPT ![LaneOfDesc(desc[j])] = Append(@, j)]

BugPlaceNew(q, j, d) == [q EXCEPT ![LaneOfDesc(d)] = Append(@, j)]
\* _place_and_announce of a new job j: held off its lane when it depends on another.
PlaceNew(q, j, d) == IF d.dep = NoJob THEN [q EXCEPT ![LaneOfDesc(d)] = Append(@, j)] ELSE q

\* One job, created, placed and announced in one step; older jobs are cancelled next.
SubmitOne(c, op, ty, g) ==
    /\ CanCreate(c, op, 1)
    /\ LET d == NewJob(ty, g, NoConfig, NoJob)
       IN  /\ ~RenameLocked(d)
           /\ desc' = [desc EXCEPT ![next] = d]
    /\ next' = next + 1
    /\ known' = known \cup {next}
    /\ status' = [status EXCEPT ![next] = "queued"]
    /\ queue' = PlaceNew(queue, next, desc'[next])
    /\ cmd' = [cmd EXCEPT ![c] = Sweep(ActiveOf(g, {}), "save", {next})]
    /\ UNCHANGED <<released, wpc, wjob, cancelReq, saveVars, fileVars, restarts, histVars>>

Compile(c, g) == SubmitOne(c, "compile", "compile", g)
Upload(c, g)  == SubmitOne(c, "upload", "upload", g)
Clean(c, g)   == SubmitOne(c, "clean", "clean", g)
AnalyzeMemory(c, g) == SubmitOne(c, "analyze", "analyze", g)

\* A COMPILE and the UPLOAD that waits for it: only the compile goes on a lane.
Install(c, g) ==
    /\ CanCreate(c, "install", 2)
    /\ ~RenameLocked(NewJob("compile", g, NoConfig, NoJob))
    /\ desc' = [desc EXCEPT ![next] = NewJob("compile", g, NoConfig, NoJob),
                            ![next + 1] = NewJob("upload", g, NoConfig, next)]
    /\ next' = next + 2
    /\ known' = known \cup {next, next + 1}
    /\ status' = [status EXCEPT ![next] = "queued", ![next + 1] = "queued"]
    /\ queue' = PlaceNew(PlaceNew(queue, next + 1, desc'[next + 1]), next, desc'[next])
    /\ cmd' = [cmd EXCEPT ![c] = Sweep(ActiveOf(g, {}), "save", {next, next + 1})]
    /\ UNCHANGED <<released, wpc, wjob, cancelReq, saveVars, fileVars, restarts, histVars>>

\* The RESET_BUILD_ENV job exists while every other job is cancelled; placed after.
ResetBuildEnv(c) ==
    /\ CanCreate(c, "reset", 1)
    /\ desc' = [desc EXCEPT ![next] = NewJob("reset", NoConfig, NoConfig, NoJob)]
    /\ next' = next + 1
    /\ known' = known \cup {next}
    /\ status' = [status EXCEPT ![next] = "queued"]
    /\ cmd' = [cmd EXCEPT ![c] = Sweep({j \in known : Active(j)}, "place", {next})]
    /\ UNCHANGED <<released, workVars, cancelReq, saveVars, fileVars, restarts, histVars>>

\* rename_chain's checks; reading the old YAML follows, then the file lock is taken.
OwnsTarget(g, n) == \E j \in known : /\ Active(j) /\ IsTail(j)
                                     /\ desc[j].cfg = g /\ desc[j].new = n
Rename(c, g, n) ==
    /\ CanCreate(c, "rename", 2)
    /\ g # n /\ g \in files /\ (n \in files => OwnsTarget(g, n))
    /\ cmd' = [cmd EXCEPT ![c] = [IdleCmd EXCEPT !.pc = "fs_lock", !.cfg = g, !.new = n]]
    /\ UNCHANGED <<jobVars, workVars, cancelReq, saveVars, fileVars, restarts, histVars>>

\* Under rename_fs_lock: create head and tail, check the rename lock, supersede.
RenameLock(c) ==
    LET g == cmd[c].cfg
        n == cmd[c].new
        d == NewJob("rename", g, n, next)
    IN  /\ cmd[c].pc = "fs_lock" /\ fsLock = NoOne
        /\ \/ /\ RenameLocked(d) \/ next + 2 > MaxJob + 1   \* (bound)
              /\ cmd' = [cmd EXCEPT ![c] = IdleCmd]
              /\ UNCHANGED <<jobVars, fsLock>>
           \/ /\ ~RenameLocked(d) /\ next + 2 <= MaxJob + 1
              /\ fsLock' = c
              /\ desc' = [desc EXCEPT ![next] = NewJob("compile", n, NoConfig, NoJob),
                                      ![next + 1] = d]
              /\ next' = next + 2
              /\ known' = known \cup {next, next + 1}
              /\ status' = [status EXCEPT ![next] = "queued", ![next + 1] = "queued"]
              /\ cmd' = [cmd EXCEPT ![c] = [Sweep(ActiveOf(g, {}), "stage_save",
                                                {next, next + 1}) EXCEPT !.new = n]]
              /\ UNCHANGED released
    /\ UNCHANGED <<workVars, cancelReq, saveVars, files, reverts, restarts, histVars>>

\* The held chain is on disk; the new YAML is written by the executor next.
StageSaved(c) ==
    /\ cmd[c].pc = "stage_save" /\ SaveReturns(c)
    /\ cmd' = [cmd EXCEPT ![c] = [@ EXCEPT !.pc = "stage_write"]]
    /\ UNCHANGED <<jobVars, workVars, cancelReq, fileVars, restarts, histVars>>

\* The write landed: place the head (the tail waits) and supersede the target's jobs.
StageWritten(c) ==
    LET head == MinOf(cmd[c].own)
    IN  /\ cmd[c].pc = "stage_write"
        /\ files' = files \cup {cmd[c].new}
        /\ queue' = PlaceNew(queue, head, desc[head])
        /\ cmd' = [cmd EXCEPT ![c] = Sweep(ActiveOf(cmd[c].new, cmd[c].own), "save",
                                           cmd[c].own)]
        /\ UNCHANGED <<jobVars, wpc, wjob, cancelReq, saveVars, fsLock, reverts, restarts,
                       histVars>>

\* The write failed: the chain is rolled out of the map.
StageFails(c) ==
    /\ cmd[c].pc = "stage_write"
    /\ known' = known \ cmd[c].own
    /\ fsLock' = NoOne
    /\ cmd' = [cmd EXCEPT ![c] = IdleCmd]
    /\ UNCHANGED <<next, desc, status, released, workVars, cancelReq, saveVars, files, reverts,
                   restarts, histVars>>

-----------------------------------------------------------------------------
(* Cancelling: jobs.cancel, for one call or for each job of a sweep *)

Cancel(c, j) ==
    /\ "cancel" \in Ops /\ cmd[c].pc = "idle" /\ Active(j)
    /\ cmd' = [cmd EXCEPT ![c] = Sweep({j}, "idle", {})]
    /\ UNCHANGED <<jobVars, workVars, cancelReq, saveVars, fileVars, restarts, histVars>>

Sweeping(c) == cmd[c].pc = "cancel" /\ cmd[c].todo # {}

\* A queued job is CANCELLED at once and saved before anyone is told.
CancelQueued(c) ==
    LET j == MinOf(cmd[c].todo)
    IN  /\ Sweeping(c) /\ j \in known /\ status[j] = "queued"
        /\ status' = [status EXCEPT ![j] = "cancelled"]
        /\ known' = Prune(known, status')
        /\ cmd' = [cmd EXCEPT ![c] = [@ EXCEPT !.pc = "save1", !.job = j]]
        /\ UNCHANGED <<next, desc, released, workVars, cancelReq, saveVars, fileVars, restarts,
                       histVars>>

\* A running job is flagged; its process, if there is one, is told to stop.
CancelRunning(c) ==
    LET j == MinOf(cmd[c].todo)
    IN  /\ Sweeping(c) /\ j \in known /\ status[j] = "running" /\ OnLane(j)
        /\ cancelReq' = cancelReq \cup {j}
        /\ cmd' = [cmd EXCEPT ![c] = [@ EXCEPT !.pc = "kill", !.job = j]]
        /\ UNCHANGED <<jobVars, workVars, saveVars, fileVars, restarts, histVars>>

\* The job finished or went away first: NOT_FOUND / INVALID_ARGS, swallowed by a sweep.
CancelMissed(c) ==
    LET j == MinOf(cmd[c].todo)
    IN  /\ Sweeping(c) /\ ~Active(j)
        /\ cmd' = [cmd EXCEPT ![c] = [@ EXCEPT !.todo = cmd[c].todo \ {j}]]
        /\ UNCHANGED <<jobVars, workVars, cancelReq, saveVars, fileVars, restarts, histVars>>

\* terminate_subtree_with_grace returns once the process is gone (at once without one).
Killed(c) ==
    /\ cmd[c].pc = "kill" /\ ~Spawned(cmd[c].job)
    /\ cmd' = [cmd EXCEPT ![c] = [@ EXCEPT !.pc = "cancel", !.todo = cmd[c].todo \ {cmd[c].job},
                                            !.job = NoJob]]
    /\ UNCHANGED <<jobVars, workVars, cancelReq, saveVars, fileVars, restarts, histVars>>

\* The tail of jobs.cancel: schedule the revert of a rename tail, cancel its head as
\* well, wake the gate, go on with the next job.
CancelEnds(c, j) ==
    /\ reverts' = reverts \cup (IF IsTail(j) THEN {j} ELSE {})
    /\ cmd' = [cmd EXCEPT ![c] = [@ EXCEPT !.pc = "cancel", !.job = NoJob,
           !.todo = (cmd[c].todo \ {j}) \cup
               (IF IsTail(j) /\ Active(desc[j].dep) THEN {desc[j].dep} ELSE {})]]
    /\ wpc' = Woken(wpc)

\* Saved and fired: the jobs held on this one are cancelled, which is saved again.
CancelSaved(c) ==
    LET j    == cmd[c].job
        held == Held(j)
    IN  /\ cmd[c].pc = "save1" /\ SaveReturns(c)
        /\ told' = told \cup {j}
        /\ ends' = [i \in Job |-> IF i = j \/ i \in held THEN ends[i] + 1 ELSE ends[i]]
        /\ \/ held = {} /\ CancelEnds(c, j) /\ UNCHANGED <<status, known>>
           \/ /\ held # {}
              /\ status' = [i \in Job |-> IF i \in held THEN "cancelled" ELSE status[i]]
              /\ known' = Prune(known, status')
              /\ reverts' = reverts \cup {d \in held : IsTail(d)}
              /\ cmd' = [cmd EXCEPT ![c] = [@ EXCEPT !.pc = "save2"]]
              /\ wpc' = Woken(wpc)
        /\ UNCHANGED <<next, desc, released, queue, wjob, cancelReq, files, fsLock, restarts,
                       acked>>

CancelSavedAgain(c) ==
    /\ cmd[c].pc = "save2" /\ SaveReturns(c)
    /\ CancelEnds(c, cmd[c].job)
    /\ UNCHANGED <<jobVars, queue, wjob, cancelReq, files, fsLock, restarts, histVars>>

\* The sweep is over: the call returns, or saves, or goes on to stage a rename.
SweepDone(c) ==
    /\ cmd[c].pc = "cancel" /\ cmd[c].todo = {} /\ cmd[c].then # "place"
    /\ cmd' = [cmd EXCEPT ![c] = IF cmd[c].then = "idle" THEN IdleCmd
                                 ELSE [@ EXCEPT !.pc = cmd[c].then]]
    /\ UNCHANGED <<jobVars, workVars, cancelReq, saveVars, fileVars, restarts, histVars>>

\* reset_build_env enqueues its job once everything else was cancelled.
ResetSwept(c) ==
    /\ cmd[c].pc = "cancel" /\ cmd[c].todo = {} /\ cmd[c].then = "place"
    /\ queue' = Place(queue, MinOf(cmd[c].own))
    /\ cmd' = [cmd EXCEPT ![c] = [@ EXCEPT !.pc = "save"]]
    /\ UNCHANGED <<jobVars, wpc, wjob, cancelReq, saveVars, fileVars, restarts, histVars>>

\* The final persist of commit_chain (or of clear) returns to the caller.
CommitSaved(c) ==
    /\ cmd[c].pc = "save" /\ SaveReturns(c)
    /\ acked' = acked \cup cmd[c].own
    /\ fsLock' = IF fsLock = c THEN NoOne ELSE fsLock
    /\ cmd' = [cmd EXCEPT ![c] = IdleCmd]
    /\ UNCHANGED <<jobVars, workVars, cancelReq, files, reverts, restarts, told, ends>>

\* firmware/clear: drop the finished jobs, or the jobs of one status, and save.
Clear(c, st) ==
    /\ "clear" \in Ops /\ cmd[c].pc = "idle"
    /\ LET gone == {j \in known : IF st = "finished" THEN status[j] \in Terminal
                                  ELSE status[j] = st}
       IN  gone # {} /\ known' = known \ gone
    /\ cmd' = [cmd EXCEPT ![c] = [IdleCmd EXCEPT !.pc = "save"]]
    /\ UNCHANGED <<next, desc, status, released, workVars, cancelReq, saveVars, fileVars,
                   restarts, histVars>>

-----------------------------------------------------------------------------
(* Lane workers: run_lane, execute_job *)

BugDropped(j) == FALSE
\* run_lane skips a job that was cancelled while it waited.
Dropped(j) == status[j] = "cancelled"

\* What a worker does with a job it took or looks at again: drop a cancelled one,
\* park a flash at the build gate, or claim the slot and start (begin_run).
Consider(w, j) ==
    \/ /\ Dropped(j)
       /\ wpc' = [wpc EXCEPT ![w] = "idle"] /\ wjob' = [wjob EXCEPT ![w] = NoJob]
       /\ UNCHANGED status
    \/ /\ ~Dropped(j) /\ UploadBlocked(j)
       /\ wpc' = [wpc EXCEPT ![w] = "gate"] /\ wjob' = [wjob EXCEPT ![w] = j]
       /\ UNCHANGED status
    \/ /\ ~Dropped(j) /\ ~UploadBlocked(j)
       /\ wpc' = [wpc EXCEPT ![w] = "begin"] /\ wjob' = [wjob EXCEPT ![w] = j]
       /\ status' = [status EXCEPT ![j] = "running"]

Take(w) ==
    /\ wpc[w] = "idle" /\ queue[LaneOf[w]] # <<>>
    /\ queue' = [queue EXCEPT ![LaneOf[w]] = Tail(@)]
    /\ Consider(w, Head(queue[LaneOf[w]]))
    /\ UNCHANGED <<next, known, desc, released, cancelReq, cmd, saveVars, fileVars, restarts,
                   histVars>>

Recheck(w) ==
    /\ wpc[w] = "woken"
    /\ Consider(w, wjob[w])
    /\ UNCHANGED <<next, known, desc, released, queue, cancelReq, cmd, saveVars, fileVars,
                   restarts, histVars>>

\* begin_run's save returns.
Begun(w) ==
    /\ wpc[w] = "begin" /\ SaveReturns(w)
    /\ wpc' = [wpc EXCEPT ![w] = "prep"]
    /\ UNCHANGED <<jobVars, queue, wjob, cancelReq, cmd, fileVars, restarts, histVars>>

\* Chip check, path and command are resolved; the subprocess is spawned and tracked.
Spawn(w) ==
    /\ wpc[w] = "prep"
    /\ wpc' = [wpc EXCEPT ![w] = "proc"]
    /\ UNCHANGED <<jobVars, queue, wjob, cancelReq, cmd, saveVars, fileVars, restarts, histVars>>

\* finalize_terminal and end_run's prune: settle j as r, then release the job held on
\* it, or cancel it when j did not complete or its device went offline meanwhile.
FinishRun(w, r, offline) ==
    LET j     == wjob[w]
        held  == Held(j)
        go    == r = "completed" /\ ~offline
        over  == IF go THEN {j} ELSE {j} \cup held
    IN  /\ offline => desc[j].type = "compile" /\ r = "completed" /\ \E d \in held : ~IsTail(d)
        /\ status' = [i \in Job |-> IF i = j THEN r
                                    ELSE IF i \in over THEN "cancelled" ELSE status[i]]
        /\ ends' = [i \in Job |-> IF i \in over THEN ends[i] + 1 ELSE ends[i]]
        /\ released' = [i \in Job |-> released[i] \/ (go /\ i \in held)]
        /\ queue' = IF go /\ held # {} THEN Place(queue, MinOf(held)) ELSE queue
        /\ reverts' = reverts \cup {t \in over : IsTail(t) /\ status'[t] # "completed"}
        /\ known' = Prune(known, status')
        /\ wpc' = [Woken(wpc) EXCEPT ![w] = "end"]
        /\ cancelReq' = IF r = "cancelled" THEN cancelReq \ {j} ELSE cancelReq
        /\ UNCHANGED <<next, desc, wjob, cmd, saveVars, fsLock, restarts, acked, told>>

\* The run raised before the subprocess was there (finalize_unexpected_error).
PrepFails(w) ==
    /\ wpc[w] = "prep"
    /\ FinishRun(w, IF wjob[w] \in cancelReq THEN "cancelled" ELSE "failed", FALSE)
    /\ UNCHANGED files

\* A successful flash of a rename tail, or a successful reset, has more to do.
HasEpilogue(j) == IsTail(j) \/ desc[j].type = "reset"

\* The subprocess exits; a cancel that was asked for before wins over its result.
Exit(w, ok, offline) ==
    /\ wpc[w] = "proc"
    /\ IF wjob[w] \in cancelReq THEN ~ok ELSE ok => ~HasEpilogue(wjob[w])
    /\ FinishRun(w, IF wjob[w] \in cancelReq THEN "cancelled"
                    ELSE IF ok THEN "completed" ELSE "failed", offline)
    /\ UNCHANGED files

ExitToEpilogue(w) ==
    /\ wpc[w] = "proc" /\ wjob[w] \notin cancelReq /\ HasEpilogue(wjob[w])
    /\ wpc' = [wpc EXCEPT ![w] = "swap"]
    /\ UNCHANGED <<jobVars, queue, wjob, cancelReq, cmd, saveVars, fileVars, restarts, histVars>>

\* finalize_rename_swap removes the old YAML; a reset has wiped the venvs as well.
EpilogueDone(w) ==
    /\ wpc[w] = "swap"
    /\ files' = IF IsTail(wjob[w]) THEN files \ {desc[wjob[w]].cfg} ELSE files
    /\ FinishRun(w, "completed", FALSE)

\* end_run's save returns; the worker goes back to its queue.
Ended(w) ==
    /\ wpc[w] = "end" /\ SaveReturns(w)
    /\ wpc' = [wpc EXCEPT ![w] = "idle"] /\ wjob' = [wjob EXCEPT ![w] = NoJob]
    /\ UNCHANGED <<jobVars, queue, cancelReq, cmd, fileVars, restarts, histVars>>

\* Wiping the receiver's venvs raised after a successful reset.
EpilogueFails(w) ==
    /\ wpc[w] = "swap" /\ ~IsTail(wjob[w])
    /\ FinishRun(w, IF wjob[w] \in cancelReq THEN "cancelled" ELSE "failed", FALSE)
    /\ UNCHANGED files

-----------------------------------------------------------------------------
(* Reverting a rename: the background task of on_job_terminal *)

BugTargetOwnedLate(t) == \E o \in known \ {t} : /\ status[o] = "running" /\ IsTail(o)
                                              /\ desc[o].new = desc[t].new
BugTargetOwnedEver(t) == \E o \in known \ {t} : IsTail(o) /\ desc[o].new = desc[t].new
\* Another active chain writes to the name t wrote to.
TargetOwned(t) == \E o \in known \ {t} : /\ Active(o) /\ IsTail(o)
                                       /\ desc[o].new = desc[t].new

\* Under the file lock: leave the new YAML alone if a newer chain owns it.
RevertStart(t) ==
    /\ t \in reverts /\ fsLock = NoOne
    /\ IF TargetOwned(t)
       THEN reverts' = reverts \ {t} /\ UNCHANGED fsLock
       ELSE fsLock' = t /\ UNCHANGED reverts
    /\ UNCHANGED <<jobVars, workVars, cancelReq, cmd, saveVars, files, restarts, histVars>>

RevertDone(t) ==
    /\ fsLock = t
    /\ files' = files \ {desc[t].new}
    /\ fsLock' = NoOne /\ reverts' = reverts \ {t}
    /\ UNCHANGED <<jobVars, workVars, cancelReq, cmd, saveVars, restarts, histVars>>

-----------------------------------------------------------------------------
(* The process dies and load_jobs brings back what was on disk *)

\* The jobs of S in creation order.
Orders(S) == {s \in UNION {[1..n -> S] : n \in 0..MaxJob} :
                 /\ \A i, k \in DOMAIN s : i < k => s[i] < s[k]
                 /\ \A j \in S : \E i \in DOMAIN s : s[i] = j}

OnDisk(j)      == disk[j].status # "none"
Requeued(j)    == disk[j].status \in {"queued", "running"}
BugSatisfied(j) == desc[j].dep = NoJob \/ disk[desc[j].dep].status # "none"
Satisfied(j)   == \/ desc[j].dep = NoJob
                  \/ disk[desc[j].dep].status = "completed"
                  \/ disk[j].released
Orphaned(j)    == Requeued(j) /\ ~Satisfied(j) /\ ~Requeued(desc[j].dep)
Restored(l)    == {j \in Job : Requeued(j) /\ Satisfied(j) /\ LaneOfDesc(desc[j]) = l}
BugRestoredStatus(j) == IF Orphaned(j) THEN "cancelled" ELSE disk[j].status
RestoredStatus(j) == IF Orphaned(j) THEN "cancelled"
                     ELSE IF Requeued(j) THEN "queued" ELSE disk[j].status

Restart ==
    /\ restarts < MaxRestart
    /\ restarts' = restarts + 1
    /\ known' = {j \in Job : OnDisk(j)}
    /\ status' = [j \in Job |-> RestoredStatus(j)]
    /\ released' = [j \in Job |-> \/ disk[j].released
                                  \/ Requeued(j) /\ Satisfied(j) /\ desc[j].dep # NoJob]
    /\ \E qc \in Orders(Restored("compile")), qu \in Orders(Restored("upload")),
          qt \in Orders(Restored("thread")) :
          queue' = [compile |-> qc, upload |-> qu, thread |-> qt]
    /\ wpc' = [w \in Worker |-> "idle"] /\ wjob' = [w \in Worker |-> NoJob]
    /\ cancelReq' = {}
    /\ cmd' = [c \in Client |-> IdleCmd]
    /\ holder' = NoOne /\ left' = {} /\ blob' = [j \in Job |-> Absent] /\ saved' = FALSE
    /\ fsLock' = NoOne
    /\ reverts' = {j \in Job : Orphaned(j) /\ IsTail(j)}
    /\ ends' = [j \in Job |-> 0]
    /\ UNCHANGED <<next, desc, disk, files, acked, told>>

-----------------------------------------------------------------------------
Request(c) ==
    \/ \E g \in Config : Compile(c, g) \/ Upload(c, g) \/ Install(c, g)
                         \/ Clean(c, g) \/ AnalyzeMemory(c, g)
    \/ ResetBuildEnv(c)
    \/ \E g, n \in Config : Rename(c, g, n)
    \/ \E j \in Job : Cancel(c, j)
    \/ \E st \in ClearStatuses : Clear(c, st)

ClientStep(c) ==
    \/ RenameLock(c) \/ StageSaved(c) \/ StageWritten(c) \/ StageFails(c)
    \/ CancelQueued(c) \/ CancelRunning(c) \/ CancelMissed(c) \/ Killed(c)
    \/ CancelSaved(c) \/ CancelSavedAgain(c)
    \/ SweepDone(c) \/ ResetSwept(c) \/ CommitSaved(c)

WorkerStep(w) ==
    \/ Take(w) \/ Recheck(w) \/ Begun(w) \/ Spawn(w) \/ PrepFails(w)
    \/ \E ok, offline \in BOOLEAN : Exit(w, ok, offline)
    \/ ExitToEpilogue(w) \/ EpilogueDone(w) \/ EpilogueFails(w) \/ Ended(w)

SaveStep   == SaveJob \/ SaveWrite \/ \E p \in Proc : SaveBegin(p)
RevertStep == \E t \in Job : RevertStart(t) \/ RevertDone(t)

Next ==
    \/ \E c \in Client : Request(c) \/ ClientStep(c)
    \/ \E w \in Worker : WorkerStep(w)
    \/ SaveStep \/ RevertStep \/ Restart

Spec == Init /\ [][Next]_vars

\* Every task that can go on does (the loop is fair, asyncio locks are FIFO, a
\* subprocess ends); nobody has to call the API and nothing has to restart.
Fairness ==
    /\ \A c \in Client : WF_vars(ClientStep(c)) /\ SF_vars(RenameLock(c))
    /\ \A w \in Worker : WF_vars(WorkerStep(w))
    /\ WF_vars(SaveJob \/ SaveWrite)
    /\ \A p \in Proc : SF_vars(SaveBegin(p))
    /\ \A t \in Job : SF_vars(RevertStart(t)) /\ WF_vars(RevertDone(t))

FairSpec == Spec /\ Fairness

-----------------------------------------------------------------------------
(* Properties *)

ClientPc == {"idle", "cancel", "save1", "save2", "kill", "save", "fs_lock", "stage_save",
             "stage_write"}
WorkerPc == {"idle", "gate", "woken", "begin", "prep", "proc", "swap", "end"}
Cmd == [pc : ClientPc, then : {"idle", "save", "place", "stage_save"}, todo : SUBSET Job,
        job : Job \cup {NoJob}, own : SUBSET Job,
        cfg : Config \cup {NoConfig}, new : Config \cup {NoConfig}]

JobTypes  == /\ next \in 1..(MaxJob + 1) /\ known \subseteq Job
             /\ desc \in [Job -> JobDesc] /\ status \in [Job -> Status]
             /\ released \in [Job -> BOOLEAN]
WorkTypes == /\ queue \in [Lane -> Seq(Job)]
             /\ wpc \in [Worker -> WorkerPc] /\ wjob \in [Worker -> Job \cup {NoJob}]
TaskTypes == cancelReq \subseteq Job /\ cmd \in [Client -> Cmd]
SaveTypes == /\ holder \in Proc \cup {NoOne} /\ left \subseteq Job
             /\ blob \in [Job -> DiskRec] /\ saved \in BOOLEAN /\ disk \in [Job -> DiskRec]
FileTypes == /\ files \subseteq Config /\ fsLock \in Client \cup Job \cup {NoOne}
             /\ reverts \subseteq Job
HistTypes == /\ restarts \in 0..MaxRestart
             /\ acked \subseteq Job /\ told \subseteq Job /\ ends \in [Job -> Nat]

\* Every variable of the job map, the lanes, the tasks, the disk and the files keeps its
\* type.
TypeOK == JobTypes /\ WorkTypes /\ TaskTypes /\ SaveTypes /\ FileTypes /\ HistTypes

\* A job is in one place at most: once on one lane, or with one worker, and a worker
\* with nothing to do holds nothing (place_on_lane's "never left double-tracked").
Places(j) == Cardinality({p \in Lane \X (1..MaxJob) :
                             p[2] \in DOMAIN queue[p[1]] /\ queue[p[1]][p[2]] = j})
             + Cardinality({w \in Worker : wjob[w] = j})
OnePlace == \A j \in Job : Places(j) <= 1

\* A running job can be cancelled: it holds a lane slot, so jobs.cancel never meets
\* "Running job is not the active subprocess (state out of sync)".
RunningHoldsSlot == \A j \in known : status[j] = "running" => OnLane(j)

\* A chained job runs only while its prerequisite is over: nothing flashes a device
\* from a build tree whose compile is still queued or running.
FlashAfterBuild ==
    \A j \in Job : status[j] = "running" /\ desc[j].dep # NoJob => ~Active(desc[j].dep)

\* A clean or reset and a flash of the tree it wipes have live processes together only
\* while the flash is being stopped (flagged, or in a sweep that has yet to reach it).
BeingStopped(j) == j \in cancelReq \/ \E c \in Client : j \in cmd[c].todo
WipeSparesFlash ==
    \A v, w \in Worker :
        wpc[v] = "proc" /\ wpc[w] = "proc" /\ WipesTree(wjob[v]) /\ IsFlash(wjob[w])
        /\ (desc[wjob[v]].type = "reset" \/ desc[wjob[v]].cfg = FlashOf(wjob[w]))
        => BeingStopped(wjob[w])

\* One active job (or chain) per device: an older one is being stopped, but for a rename
\* onto the device's name, which cancels it once its own YAML is staged.
StagedOnto(j) == \E c \in Client : j \in cmd[c].own /\ cmd[c].new = desc[j].cfg /\ cmd[c].new # NoConfig
OneChainPerDevice ==
    restarts = 0 =>
    \A i, j \in known :
        Active(i) /\ Active(j) /\ i < j /\ desc[i].cfg = desc[j].cfg /\ desc[j].dep # i
        => BeingStopped(i) \/ StagedOnto(j)

\* A submission that returned survives a crash: while the job is active the disk has it
\* as active.
AckedIsDurable ==
    \A j \in acked : Active(j) /\ desc[j].type # "analyze" => Requeued(j)

\* Once JOB_CANCELLED of a queued job was fired, no restart runs the job again.
ToldIsDurable == \A j \in told : ~Requeued(j)

\* At most one terminal event per job and process, and none before the job is over.
EndsOnce == \A j \in Job : ends[j] <= 1 /\ (ends[j] = 1 => status[j] \in Terminal)

\* The renamed YAML is there for as long as its chain is active, from the moment it was
\* written: no superseded chain's revert removes it.
Staged(t) == \A c \in Client : t \in cmd[c].own => cmd[c].then # "stage_save"
RenameKeepsYaml ==
    restarts = 0 => \A t \in known : IsTail(t) /\ Active(t) /\ Staged(t) => desc[t].new \in files

\* A finished job stays as it finished (until a restart loads an older record).
TerminalStays ==
    [][restarts' = restarts =>
          \A j \in Job : status[j] \in Terminal => status'[j] = status[j]]_vars

\* Every job that is queued or running is over in the end.
Settles == \A j \in Job : Active(j) ~> ~Active(j)

\* A rename that failed or was cancelled leaves no YAML under the new name behind once
\* every call has returned and every revert has run, unless another chain to that name
\* is alive or went through (revert_rename's promise).
FailedRenameUndone ==
    restarts = 0 /\ reverts = {} /\ fsLock = NoOne /\ (\A c \in Client : cmd[c] = IdleCmd) =>
        \A t \in Job :
            /\ IsTail(t) /\ status[t] \in {"failed", "cancelled"}
            /\ \A o \in Job : IsTail(o) /\ desc[o].new = desc[t].new
                              => ~Active(o) /\ status[o] # "completed"
            => desc[t].new \notin files

\* reset_build_env: "Cancels every other in-flight job first so the wipe can't race a
\* live compile or upload": while the wipe's process lives no other job's does.
ResetRunsAlone ==
    \A v, w \in Worker :
        v # w /\ wpc[v] = "proc" /\ wpc[w] = "proc" => desc[wjob[v]].type # "reset"
=============================================================================
