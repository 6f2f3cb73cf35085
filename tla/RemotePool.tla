----------------------------- MODULE RemotePool -----------------------------
(***************************************************************************)
(* Remote compiles as the offloader runs them: the dispatch pool and its   *)
(* matcher (controllers/firmware/remote_dispatch.py, RemoteDispatchState), *)
(* one driver task per compile bound to a server (remote_runner.py), and   *)
(* the local compile lane as the pool sees it.                             *)
(* The code between two awaits is one step.  A driver's program counter:   *)
(*   begin   begin_run's save; nothing is listening yet                    *)
(*   bundle  building the bundle            submit  waiting for the ack    *)
(*   await   _await_terminal                fetch   download_artifacts     *)
(*   broken  its pending request was drained by a drop                     *)
(*   stage   materialising the artifacts                                   *)
(***************************************************************************)
EXTENDS BuildServer

CONSTANTS
    MaxLoss,    \* _MAX_SERVER_LOSS_RETRIES
    Matching,   \* the servers whose esphome version is exactly ours
    Toggles,    \* settings the user changes: "remote", "policy", "share", "enabled"
    MaxToggles, \* bound: such changes
    Exact,      \* the version policy at the start is EXACT_REQUIRED
    Start       \* the situations at the start: include_local_in_pool, the enabled
                \* servers, and how much of the two bounds is used up

Setting == {"remote", "policy", "share", "enabled"}

ASSUME PoolAssumption ==
    /\ MaxLoss \in Nat /\ MaxDrops \in Nat /\ MaxToggles \in Nat
    /\ Matching \subseteq Server /\ Toggles \subseteq Setting
    /\ Exact \in BOOLEAN /\ Job \cap (Server \cup {NoServer}) = {}
    /\ Start \subseteq [share : BOOLEAN, enabled : SUBSET Server,
                        drops : 0..MaxDrops, toggles : 0..MaxToggles]

VARIABLES
    status,    \* FirmwareJob.status ("none": never submitted)
    pending,   \* RemoteDispatchState.pending, in dict order
    peer,      \* .job_peer: the server a job in flight is bound to
    losses,    \* .retries
    wake,      \* .wake
    loop,      \* run_dispatch_loop: "grace", "wait", "save"
    drv,       \* the driver of each job in flight
    att,       \* history: how often each job was dispatched
    cancelReq, \* state.cancel_requested
    asked,     \* history: jobs the user asked to cancel
    lane,      \* the compile lane's queue
    lpc,       \* its worker: "idle", "run", "end" (slot free, worker not back yet)
    held,      \* the job it runs
    on,        \* remote_builds_enabled
    exact,     \* version_match_policy is EXACT_REQUIRED (else ANY)
    share,     \* include_local_in_pool
    enabled,   \* pairings the user has not disabled
    toggles    \* changes so far (bound)

poolVars == <<pending, peer, losses, wake, loop>>
drvVars  == <<drv, att>>
jobVars  == <<status, cancelReq, asked>>
laneVars == <<lane, lpc, held>>
setVars  == <<on, exact, share, enabled, toggles>>
vars == <<serverVars, jobVars, poolVars, drvVars, laneVars, setVars>>

NoJob  == NoServer
Done   == {"completed", "failed", "cancelled"}
NoDrv  == [pc |-> "none", term |-> "none", lost |-> FALSE, sent |-> FALSE]
\* The driver's bus listeners are attached (and its outcome still open).
Listens(j) == drv[j].pc \in {"bundle", "submit", "await"}
InFlight(j) == drv[j].pc # "none"
At(j, pc)   == drv[j].pc = pc
Goes(j, pc) == drv' = [drv EXCEPT ![j].pc = pc]

RPInit ==
    /\ status = [j \in Job |-> "none"] /\ cancelReq = {} /\ asked = {}
    /\ pending = <<>> /\ peer = [j \in Job |-> NoServer] /\ losses = [j \in Job |-> 0]
    /\ wake = FALSE /\ loop = "grace"
    /\ drv = [j \in Job |-> NoDrv] /\ att = [j \in Job |-> 0]
    /\ lane = <<>> /\ lpc = "idle" /\ held = NoJob
    /\ on = TRUE /\ exact = Exact
    /\ \E st \in Start : /\ share = st.share /\ enabled = st.enabled
                        /\ drops = st.drops /\ toggles = st.toggles

\* build_scheduler_snapshot, with the fields _dispatch_one binds late.
BuildView(busy, busyLane, idle) ==
    [on |-> on, exact |-> exact, intended |-> enabled,
     open |-> {s \in Server : link[s] # "down"},
     fits |-> IF exact THEN Matching ELSE Server,
     idle |-> idle, busy |-> busy, share |-> share, localBusy |-> busyLane]
BugBusyPins(p) == {peer[j] : j \in Job} \ {NoServer}
BusyPins(p) == {p[j] : j \in Job} \ {NoServer}
\* not compile_queue_status().idle
LaneBusy(q) == q # <<>> \/ lpc = "run"

-----------------------------------------------------------------------------
(* The API *)

\* resolve_install_source, then place_on_lane.
Submit(j) ==
    /\ status[j] = "none"
    /\ LET path == BuildPath(BuildView({}, FALSE, {})) IN
       \/ /\ path = "remote" /\ pending' = Append(pending, j) /\ wake' = TRUE
          /\ UNCHANGED lane
       \/ /\ path = "local" /\ lane' = Append(lane, j)
          /\ UNCHANGED <<pending, wake>>
    /\ status' = [status EXCEPT ![j] = "queued"]
    /\ UNCHANGED <<serverVars, cancelReq, asked, peer, losses, loop, drvVars, lpc, held, setVars>>

\* cancel of a QUEUED job: discard takes it out of the pool; a lane keeps its entry.
CancelQueued(j) ==
    /\ status[j] = "queued"
    /\ pending' = RemoveFirst(pending, j)
    /\ losses' = [losses EXCEPT ![j] = 0] /\ wake' = TRUE
    /\ status' = [status EXCEPT ![j] = "cancelled"] /\ asked' = asked \cup {j}
    /\ UNCHANGED <<serverVars, cancelReq, peer, loop, drvVars, laneVars, setVars>>

\* cancel of a RUNNING job reaches the driver or the lane's worker; one that neither
\* holds raises RuntimeError and changes nothing.
CancelRunning(j) ==
    /\ status[j] = "running" /\ j \notin cancelReq
    /\ InFlight(j) \/ (lpc = "run" /\ held = j)
    /\ cancelReq' = cancelReq \cup {j} /\ asked' = asked \cup {j}
    /\ UNCHANGED <<serverVars, status, poolVars, drvVars, laneVars, setVars>>

-----------------------------------------------------------------------------
(* The matcher *)

GraceOver ==
    /\ loop = "grace" /\ loop' = "wait"
    /\ UNCHANGED <<serverVars, jobVars, pending, peer, losses, wake, drvVars, laneVars, setVars>>

BugDropped(p, j) == [p EXCEPT !.losses[j] = 0]
\* RemoteDispatchState.drop (start, which pops pending only, keeps the losses).
Dropped(p, j) == [p EXCEPT !.pending = RemoveFirst(@, j), !.losses[j] = 0]

\* _dispatch_one on the pool p; idle is what the servers' cached statuses say.
DispatchOne(idle, p, j) ==
    LET v    == BuildView(BusyPins(p.peer), LaneBusy(p.lane), idle)
        t    == DispatchTarget(v)
    IN  CASE p.status[j] # "queued" -> Dropped(p, j)
          [] t = "remote" -> [Dropped(p, j) EXCEPT
                                !.losses[j] = p.losses[j], !.peer[j] = FreePin(v),
                                !.status[j] = "running", !.drv[j].pc = "begin",
                                !.att[j] = p.att[j] + 1]
          [] t = "local"  -> [Dropped(p, j) EXCEPT !.lane = Append(p.lane, j), !.save = TRUE]
          [] t = "fail"   -> [Dropped(p, j) EXCEPT !.status[j] = "failed", !.save = TRUE]
          [] OTHER        -> p

Pool == [pending |-> pending, peer |-> peer, losses |-> losses, status |-> status, drv |-> drv, att |-> att,
         lane |-> lane, save |-> FALSE]

\* _dispatch_pending: one pass over the waiting compiles, busy re-derived for each.
PassOver(idle) ==
    LET after[k \in 0..Len(pending)] == IF k = 0 THEN Pool ELSE DispatchOne(idle, after[k - 1], pending[k])
    IN  after[Len(pending)]
Pass ==
    /\ loop = "wait" /\ wake
    /\ \E idle \in SUBSET Server :
         LET p == PassOver(idle)
         IN  /\ pending' = p.pending /\ peer' = p.peer /\ losses' = p.losses
             /\ status' = p.status /\ drv' = p.drv /\ att' = p.att /\ lane' = p.lane
             /\ loop' = IF p.save THEN "save" ELSE "wait"
    /\ wake' = FALSE
    /\ UNCHANGED <<serverVars, cancelReq, asked, lpc, held, setVars>>

PassSaved ==
    /\ loop = "save" /\ loop' = "wait"
    /\ UNCHANGED <<serverVars, jobVars, pending, peer, losses, wake, drvVars, laneVars, setVars>>

-----------------------------------------------------------------------------
(* The driver: _drive_remote around run_remote_job *)

BugRelease(j) == /\ peer' = [peer EXCEPT ![j] = NoServer] /\ drv' = [drv EXCEPT ![j] = NoDrv]
                 /\ wake' = wake
\* RemoteDispatchState.release: the server is free, the matcher woken.
Release(j) == /\ peer' = [peer EXCEPT ![j] = NoServer] /\ drv' = [drv EXCEPT ![j] = NoDrv]
              /\ wake' = TRUE

\* A terminal status, then the driver's finally: the server is freed, the matcher woken.
Finish(j, st) ==
    /\ status' = [status EXCEPT ![j] = st]
    /\ cancelReq' = IF st = "cancelled" THEN cancelReq \ {j} ELSE cancelReq
    /\ losses' = [losses EXCEPT ![j] = 0] /\ Release(j)
    /\ UNCHANGED <<asked, pending, loop, att, laneVars, setVars>>
BugFailLocally(j) == Finish(j, "failed")
\* _fail_locally: a requested cancel wins.
FailLocally(j) == Finish(j, IF j \in cancelReq THEN "cancelled" ELSE "failed")
Waits == UNCHANGED <<jobVars, poolVars, att, laneVars, setVars>>

DriverBegun(j) ==
    At(j, "begin") /\ Goes(j, "bundle") /\ Waits /\ UNCHANGED serverVars

\* A cancelled or failed bundle, one over the cap, no open link to its server.
BundleFails(j) == At(j, "bundle") /\ FailLocally(j) /\ UNCHANGED serverVars

Sends(j, t) == /\ link[peer[j]] = "up"
               /\ up' = [up EXCEPT ![peer[j]] = Append(@, Frame(t, j, att[j]))]
               /\ UNCHANGED <<link, down, extr, rjobs, drops>>

BundleReady(j) ==
    /\ At(j, "bundle") /\ j \notin cancelReq
    /\ Sends(j, "submit") /\ Goes(j, "submit") /\ Waits

\* The ack's timeout, or SubmitJobSessionLostError from the drained request.
SubmitTimeout(j) == At(j, "submit") /\ FailLocally(j) /\ UNCHANGED serverVars
RequestLost(j)   == At(j, "broken") /\ FailLocally(j) /\ UNCHANGED serverVars

\* _await_terminal with a terminal frame in hand: a requested cancel wins.
HasTerm(j) == At(j, "await") /\ drv[j].term # "none"
TermCancelled(j) ==
    /\ HasTerm(j) /\ (j \in cancelReq \/ drv[j].term = "cancelled")
    /\ Finish(j, "cancelled") /\ UNCHANGED serverVars
TermFailed(j) ==
    /\ HasTerm(j) /\ drv[j].term = "failed" /\ j \notin cancelReq
    /\ FailLocally(j) /\ UNCHANGED serverVars
\* _requeue_after_provision_failure: onto the local lane, its status left RUNNING.
TermProvision(j) ==
    /\ HasTerm(j) /\ drv[j].term = "provision" /\ j \notin cancelReq
    /\ lane' = Append(lane, j)
    /\ losses' = [losses EXCEPT ![j] = 0] /\ Release(j)
    /\ UNCHANGED <<serverVars, jobVars, pending, loop, att, lpc, held, setVars>>
TermCompleted(j) ==
    /\ HasTerm(j) /\ drv[j].term = "completed" /\ j \notin cancelReq
    /\ \/ Sends(j, "fetch") /\ Goes(j, "fetch") /\ Waits
       \/ link[peer[j]] # "up" /\ FailLocally(j) /\ UNCHANGED serverVars

BugRequeue(j, n) ==
    /\ losses' = [losses EXCEPT ![j] = n] /\ Release(j) /\ pending' = Append(pending, j)
    /\ UNCHANGED <<status, cancelReq, asked, loop, att, laneVars, setVars>>
\* _await_terminal with the session lost and no terminal frame: back to the pool, or
\* failed past the cap.
Requeue(j, n) ==
    /\ losses' = [losses EXCEPT ![j] = n] /\ Release(j)
    /\ status' = [status EXCEPT ![j] = "queued"] /\ pending' = Append(pending, j)
    /\ UNCHANGED <<cancelReq, asked, loop, att, laneVars, setVars>>
IsLost(j) == At(j, "await") /\ drv[j].term = "none" /\ drv[j].lost
BugServerLost(j) ==
    IsLost(j) /\ j \notin cancelReq /\ Requeue(j, 0) /\ UNCHANGED serverVars
ServerLost(j) ==
    /\ IsLost(j) /\ j \notin cancelReq /\ losses[j] < MaxLoss
    /\ Requeue(j, losses[j] + 1) /\ UNCHANGED serverVars
GivesUp(j) ==
    /\ IsLost(j) /\ (j \in cancelReq \/ losses[j] >= MaxLoss)
    /\ FailLocally(j) /\ UNCHANGED serverVars

\* _await_terminal with a cancel requested: one wire cancel, or cancelled on the spot.
SendCancel(j) ==
    /\ At(j, "await") /\ drv[j].term = "none" /\ ~drv[j].lost
    /\ j \in cancelReq /\ ~drv[j].sent
    /\ \/ Sends(j, "cancel") /\ drv' = [drv EXCEPT ![j].sent = TRUE] /\ Waits
       \/ link[peer[j]] # "up" /\ Finish(j, "cancelled") /\ UNCHANGED serverVars

\* materialise_remote_artifacts, then the last look at a cancel.
Staged(j) ==
    /\ At(j, "stage") /\ j \notin cancelReq
    /\ Finish(j, "completed") /\ UNCHANGED serverVars
StageFails(j) == At(j, "stage") /\ FailLocally(j) /\ UNCHANGED serverVars

-----------------------------------------------------------------------------
(* Frames and link events at the offloader *)

Got(s, types) == /\ down[s] # <<>> /\ Head(down[s]).type \in types
                 /\ down' = [down EXCEPT ![s] = Tail(@)]
                 /\ UNCHANGED <<link, up, extr, rjobs, drops>>
Ignored == UNCHANGED <<jobVars, poolVars, drvVars, laneVars, setVars>>

\* submit_job's future; a late answer finds none.
GotAck(s) ==
    /\ Got(s, {"ack", "nack"})
    /\ LET f == Head(down[s]) IN
       IF ~(peer[f.job] = s /\ At(f.job, "submit")) THEN Ignored
       ELSE IF f.type = "ack" THEN Goes(f.job, "await") /\ Waits ELSE FailLocally(f.job)

\* _on_state: the first terminal frame with this (pin, job id).
GotEnd(s) ==
    /\ Got(s, EndFrame)
    /\ LET f == Head(down[s]) IN
       IF ~(peer[f.job] = s /\ Listens(f.job) /\ drv[f.job].term = "none") THEN Ignored
       ELSE /\ drv' = [drv EXCEPT ![f.job].term = f.type] /\ Waits

GotFiles(s) ==
    /\ Got(s, {"files", "nofiles"})
    /\ LET f == Head(down[s]) IN
       IF ~(peer[f.job] = s /\ At(f.job, "fetch")) THEN Ignored
       ELSE IF f.type = "files" THEN Goes(f.job, "stage") /\ Waits ELSE FailLocally(f.job)

\* The session loop ends: the channel is cleared and requests in flight are drained.
Drop(s) ==
    /\ LinkDrop(s)
    /\ drv' = [j \in Job |-> IF peer[j] = s /\ drv[j].pc \in {"submit", "fetch"}
                             THEN [drv[j] EXCEPT !.pc = "broken"] ELSE drv[j]]
    /\ Waits

Wakes == wake' = TRUE /\ UNCHANGED <<jobVars, pending, peer, losses, loop, att, laneVars>>

BugClosed(s) == LinkState(s, "closing", "down") /\ Wakes /\ UNCHANGED <<drv, setVars>>
\* OFFLOADER_PEER_LINK_CLOSED: heard by the listening drivers of that server.
Closed(s) ==
    /\ LinkState(s, "closing", "down")
    /\ drv' = [j \in Job |-> [drv[j] EXCEPT !.lost = @ \/ (peer[j] = s /\ Listens(j))]]
    /\ Wakes /\ UNCHANGED setVars
Connect(s) == LinkState(s, "down", "up") /\ Wakes /\ UNCHANGED <<drv, setVars>>
QueueStatus(s) == link[s] = "up" /\ ~wake /\ Wakes /\ UNCHANGED <<serverVars, drv, setVars>>

\* _POOL_WAKE_EVENTS, of the settings.
WakesOn == {"share", "enabled"}

\* set_offloader_settings and the pairing's enable switch.  The matcher is
\* not subscribed to the events of the first two.
ChangeSetting(x) ==
    /\ x \in Toggles /\ toggles < MaxToggles /\ toggles' = toggles + 1
    /\ on'    = IF x = "remote" THEN ~on ELSE on
    /\ exact' = IF x = "policy" THEN ~exact ELSE exact
    /\ share' = IF x = "share" THEN ~share ELSE share
    /\ \/ x # "enabled" /\ enabled' = enabled
       \/ x = "enabled" /\ \E s \in Server : enabled' = (enabled \cup {s}) \ (enabled \cap {s})
    /\ wake' = (wake \/ x \in WakesOn)
    /\ UNCHANGED <<serverVars, jobVars, pending, peer, losses, loop, drvVars, laneVars>>

-----------------------------------------------------------------------------
(* The local compile lane: run_lane, execute_job.  rearm_if_pending when it frees. *)

Rearm == wake' = (wake \/ pending # <<>>)

LaneTake ==
    /\ lpc = "idle" /\ lane # <<>> /\ lane' = Tail(lane)
    /\ \/ status[Head(lane)] = "cancelled" /\ Rearm /\ UNCHANGED <<status, lpc, held>>
       \/ /\ status[Head(lane)] # "cancelled"
          /\ status' = [status EXCEPT ![Head(lane)] = "running"]
          /\ lpc' = "run" /\ held' = Head(lane) /\ UNCHANGED wake
    /\ UNCHANGED <<serverVars, cancelReq, asked, pending, peer, losses, loop, drvVars, setVars>>

LaneDone(st) ==
    /\ lpc = "run" /\ lpc' = "end" /\ held' = NoJob
    /\ status' = [status EXCEPT ![held] = IF held \in cancelReq THEN "cancelled" ELSE st]
    /\ cancelReq' = cancelReq \ {held}
    /\ UNCHANGED <<serverVars, asked, poolVars, drvVars, lane, setVars>>

LaneEnd ==
    /\ lpc = "end" /\ lpc' = "idle" /\ Rearm
    /\ UNCHANGED <<serverVars, jobVars, pending, peer, losses, loop, drvVars, lane, held, setVars>>

-----------------------------------------------------------------------------

User(j)   == Submit(j) \/ CancelQueued(j) \/ CancelRunning(j)
Driver(j) ==
    \/ DriverBegun(j) \/ BundleFails(j) \/ BundleReady(j) \/ SubmitTimeout(j) \/ RequestLost(j)
    \/ TermCancelled(j) \/ TermFailed(j) \/ TermProvision(j) \/ TermCompleted(j)
    \/ ServerLost(j) \/ GivesUp(j) \/ SendCancel(j) \/ Staged(j) \/ StageFails(j)
Matcher   == GraceOver \/ Pass \/ PassSaved
Offloader(s) == GotAck(s) \/ GotEnd(s) \/ GotFiles(s)
Remote(s) == ServerStep(s) /\ Ignored
Local     == LaneTake \/ LaneDone("completed") \/ LaneDone("failed") \/ LaneEnd

Init == ServerInit /\ RPInit
Next ==
    \/ \E j \in Job : User(j) \/ Driver(j)
    \/ Matcher \/ Local
    \/ \E s \in Server : \/ Remote(s) \/ Offloader(s)
                         \/ Drop(s) \/ Closed(s) \/ Connect(s) \/ QueueStatus(s)
    \/ \E x \in Setting : ChangeSetting(x)
Spec == Init /\ [][Next]_vars

-----------------------------------------------------------------------------
(* Properties *)

\* The shape of the state: one status, one driver and one place per job.
RPTypeOK ==
    /\ status \in [Job -> {"none", "queued", "running"} \cup Done]
    /\ pending \in Seq(Job) /\ lane \in Seq(Job)
    /\ peer \in [Job -> Server \cup {NoServer}] /\ losses \in [Job -> 0..MaxLoss]
    /\ wake \in BOOLEAN /\ loop \in {"grace", "wait", "save"}
    /\ drv \in [Job -> [pc : {"none", "begin", "bundle", "submit", "await", "broken",
                              "fetch", "stage"},
                        term : EndFrame \cup {"none"},
                        lost : BOOLEAN, sent : BOOLEAN]]
    /\ att \in [Job -> 0..MaxLoss + 1] /\ cancelReq \subseteq Job /\ asked \subseteq Job
    /\ lpc \in {"idle", "run", "end"} /\ held \in Job \cup {NoJob}
    /\ on \in BOOLEAN /\ exact \in BOOLEAN /\ share \in BOOLEAN
    /\ enabled \subseteq Server /\ toggles \in Nat
    /\ link \in [Server -> {"up", "closing", "down"}] /\ drops \in Nat

\* Two compiles never drive the same server (busy_build_server_pins): not even when one
\* pass places both, or a server frees while its job is re-routed.
OneBuildPerServer ==
    \A j, k \in Job : j # k /\ peer[j] # NoServer => peer[j] # peer[k]

\* place_on_lane "never leaves a job double-tracked", and no path loses one: an active
\* compile is in exactly one of the pool's waiting set, a driver, the local lane, its worker.
Count(q, j) == Cardinality({i \in DOMAIN q : q[i] = j})
OnePlace ==
    \A j \in Job : status[j] \in {"queued", "running"} =>
        Count(pending, j) + (IF InFlight(j) THEN 1 ELSE 0) + Count(lane, j)
          + (IF held = j THEN 1 ELSE 0) = 1

\* No compile is left waiting: whenever the matcher sleeps with nothing to wake it, a
\* fresh look at the pool would also tell every waiting compile to wait.
NoStrand ==
    loop = "wait" /\ ~wake /\ lpc # "end" /\ pending # <<>> =>
        DispatchTarget(BuildView(BusyPins(peer), LaneBusy(lane), {})) = "wait"

\* "User intent wins": once a running job's cancel was accepted the job never ends
\* COMPLETED or FAILED, whichever of the frame, the drop and the cancel came first;
\* and the end a job came to stands, whatever is left of it at a server.
CancelWins ==
    [][\A j \in Job :
          /\ j \in cancelReq /\ status[j] = "running" => status'[j] \notin {"completed", "failed"}
          /\ status[j] \in Done => status'[j] = status[j]]_vars

\* A job is CANCELLED only if someone cancelled it.
CancelledOnlyIfAsked == \A j \in Job : status[j] = "cancelled" => j \in asked

\* A running job can be cancelled: a driver or the local worker holds it.
RunningCanBeCancelled ==
    \A j \in Job : status[j] = "running" => InFlight(j) \/ held = j

\* Where a compile is kept, while it has not ended.
Whereabouts(j) ==
    IF status[j] \notin {"queued", "running"} THEN "out"
    ELSE IF InFlight(j) THEN "server"
    ELSE IF held = j THEN "bench"
    ELSE IF Contains(pending, j) THEN "pool"
    ELSE IF Contains(lane, j) THEN "lane" ELSE "lost"

Dispatch == INSTANCE CompileDispatch WITH
    stage <- status, place <- [j \in Job |-> Whereabouts(j)], pin <- peer,
    tries <- att, stop <- cancelReq

\* Whatever frames, drops, passes and settings do, each compile goes the way
\* CompileDispatch promises: from place to place and never astray, back to the pool only
\* with a lost server, off to the lane for good, at most MaxLoss + 1 times to a server.
ImplementsDispatch == Dispatch!Spec

\* Every task of the event loop that can run runs, links are re-dialled for ever, a
\* server's build ends, and frames on a link that stays up arrive.
Fairness ==
    /\ WF_vars(GraceOver) /\ WF_vars(Pass) /\ WF_vars(PassSaved)
    /\ WF_vars(LaneTake) /\ WF_vars(LaneDone("completed")) /\ WF_vars(LaneEnd)
    /\ \A j \in Job : WF_vars(Driver(j))
    /\ \A s \in Server :
         /\ WF_vars(Offloader(s)) /\ WF_vars(Closed(s)) /\ WF_vars(Connect(s))
         /\ WF_vars(Ignored /\ (ReceiveSubmit(s) \/ ReceiveCancel(s) \/ ReceiveFetch(s)))
         /\ WF_vars(Ignored /\ (ExtractCancelled(s) \/ ExtractDone(s))) /\ WF_vars(Ignored /\ Handoff(s))
         /\ WF_vars(Ignored /\ ServerTake(s)) /\ WF_vars(Ignored /\ ServerEnd(s, "completed"))
FairSpec == Spec /\ Fairness

\* Every submitted compile ends, whatever the links do in between.
Settles == \A j \in Job : status[j] = "queued" ~> status[j] \in Done
=============================================================================
