----------------------------- MODULE BuildServer -----------------------------
(***************************************************************************)
(* The build servers (receivers) one offloader is paired with, and the     *)
(* peer link to each: controllers/remote_build/{submit_job, job_fanout,    *)
(* peer_link_sessions, artifacts_download, peer_link_client}.              *)
(*                                                                         *)
(* A frame names a job by the offloader's job id only.  att is a history   *)
(* component, the number of times that job had been dispatched when the    *)
(* frame or record was made; no action of the code reads it (created_at    *)
(* orders the records the same way).                                       *)
(***************************************************************************)
EXTENDS BuildScheduler, SequencesExt

CONSTANTS
    Job,         \* the offloader's compile jobs, each of its own configuration
    MaxDrops     \* bound: peer-link drops

VARIABLES
    link,   \* "up", "closing" (channel gone, CLOSED not yet fired), "down"
    up,     \* frames on their way to each server
    down,   \* frames on their way back
    extr,   \* ExtractWindow: accepted bundles not handed off yet, in lock order
    rjobs,  \* the server's state.jobs for this offloader, in dict order
    drops   \* drops so far (bound)

serverVars == <<link, up, down, extr, rjobs, drops>>

UpFrame    == {"submit", "cancel", "fetch"}
EndFrame   == {"completed", "failed", "provision", "cancelled"}
DownFrame  == EndFrame \cup {"ack", "nack", "files", "nofiles"}
ServerDone == {"completed", "failed", "cancelled"}

Frame(t, j, n) == [type |-> t, job |-> j, att |-> n]
\* A frame sent through a session that is gone is dropped.
Tell(s, frames) == down' = IF link[s] = "up" THEN [down EXCEPT ![s] = @ \o frames] ELSE down
Took(s, t)      == up[s] # <<>> /\ Head(up[s]).type = t /\ up' = [up EXCEPT ![s] = Tail(@)]
First(S)        == CHOOSE i \in S : \A k \in S : i <= k

-----------------------------------------------------------------------------
(* The server's firmware queue, as far as this offloader's jobs go. *)

Live(r) == r.st \notin ServerDone
\* prune_history: the active jobs, then one terminal job per configuration, the newest.
Pruned(q) ==
    SelectSeq(q, Live)
    \o SelectSeq(q, LAMBDA r : /\ ~Live(r)
                               /\ \A k \in DOMAIN q : q[k].job = r.job /\ ~Live(q[k])
                                                      => q[k].att <= r.att)
Ended(q, i, st) == Pruned([q EXCEPT ![i].st = st])
Builds(s, j)    == {i \in DOMAIN rjobs[s] : rjobs[s][i].job = j}
LiveBuilds(s, j) == {i \in Builds(s, j) : Live(rjobs[s][i])}
Tracked(s, j)   == {i \in DOMAIN extr[s] : extr[s][i].job = j}

\* supersede_active_jobs for a new build of j: queued ones end, a running one is told to.
BuildSupersede(q, j) ==
    [i \in DOMAIN q |->
        IF q[i].job # j THEN q[i]
        ELSE IF q[i].st = "queued" THEN [q[i] EXCEPT !.st = "cancelled"]
        ELSE IF q[i].st = "running" THEN [q[i] EXCEPT !.st = "stopping"] ELSE q[i]]
Superseded(q, j) == SelectSeq(q, LAMBDA r : r.job = j /\ r.st = "queued")
CancelledFrames(q) == [i \in DOMAIN q |-> Frame("cancelled", q[i].job, q[i].att)]

-----------------------------------------------------------------------------
(* Frames from the offloader *)

\* handle_submit_job .. the ack: refused while an accepted bundle of j is mid-extract.
ReceiveSubmit(s) ==
    /\ Took(s, "submit")
    /\ LET f == Head(up[s]) IN
       IF Tracked(s, f.job) # {}
       THEN Tell(s, <<Frame("nack", f.job, f.att)>>) /\ UNCHANGED extr
       ELSE /\ Tell(s, <<Frame("ack", f.job, f.att)>>)
            /\ extr' = [extr EXCEPT ![s] = Append(@, [job |-> f.job, att |-> f.att,
                                      live |-> TRUE, flag |-> FALSE, placed |-> FALSE])]
    /\ UNCHANGED <<link, rjobs, drops>>

\* handle_cancel_job: the oldest live build of that id, else an extract, else nothing.
ReceiveCancel(s) ==
    /\ Took(s, "cancel")
    /\ LET j == Head(up[s]).job
           i == First(LiveBuilds(s, j))
           r == rjobs[s][i]
       IN  IF LiveBuilds(s, j) = {}
           THEN /\ extr' = [extr EXCEPT ![s] =
                              [k \in DOMAIN @ |-> [@[k] EXCEPT !.flag = @ \/ extr[s][k].job = j]]]
                /\ UNCHANGED <<rjobs, down>>
           ELSE IF r.st = "queued"
           THEN /\ rjobs' = [rjobs EXCEPT ![s] = Ended(@, i, "cancelled")]
                /\ Tell(s, <<Frame("cancelled", j, r.att)>>)
                /\ UNCHANGED extr
           ELSE /\ rjobs' = [rjobs EXCEPT ![s][i].st = "stopping"]
                /\ UNCHANGED <<extr, down>>
    /\ UNCHANGED <<link, drops>>

\* handle_download_artifacts: the first record of that id must be COMPLETED.
ReceiveFetch(s) ==
    /\ Took(s, "fetch")
    /\ LET j  == Head(up[s]).job
           ok == Builds(s, j) # {} /\ rjobs[s][First(Builds(s, j))].st = "completed"
       IN  Tell(s, <<Frame(IF ok THEN "files" ELSE "nofiles", j, Head(up[s]).att)>>)
    /\ UNCHANGED <<link, extr, rjobs, drops>>

-----------------------------------------------------------------------------
(* run_post_ack_extract, one bundle at a time under the per-peer lock.  Its own *)
(* frames go to the session that submitted; the fan-out's go to today's.        *)

Extracting(s) == extr[s] # <<>> /\ ~Head(extr[s]).placed
Report(s, t)  == LET e == Head(extr[s])
                 IN  IF e.live THEN Tell(s, <<Frame(t, e.job, e.att)>>) ELSE UNCHANGED down

ExtractCancelled(s) ==
    /\ Extracting(s) /\ Head(extr[s]).flag
    /\ Report(s, "cancelled")
    /\ extr' = [extr EXCEPT ![s] = Tail(@)]
    /\ UNCHANGED <<link, up, rjobs, drops>>

ExtractFails(s) ==
    /\ Extracting(s)
    /\ Report(s, "failed")
    /\ extr' = [extr EXCEPT ![s] = Tail(@)]
    /\ UNCHANGED <<link, up, rjobs, drops>>

\* _create_job + _enqueue: the build is queued, older builds of its configuration
\* are superseded; the enqueue then waits for a running one to stop.
ExtractDone(s) ==
    /\ Extracting(s) /\ ~Head(extr[s]).flag
    /\ LET e   == Head(extr[s])
           new == [job |-> e.job, att |-> e.att, st |-> "queued"]
           old == Superseded(rjobs[s], e.job)
           q   == Append(BuildSupersede(rjobs[s], e.job), new)
       IN  /\ rjobs' = [rjobs EXCEPT ![s] = IF old = <<>> THEN q ELSE Pruned(q)]
           /\ Tell(s, CancelledFrames(old))
    /\ extr' = [extr EXCEPT ![s][1].placed = TRUE]
    /\ UNCHANGED <<link, up, drops>>

Handoff(s) ==
    /\ extr[s] # <<>> /\ Head(extr[s]).placed
    /\ \A i \in Builds(s, Head(extr[s]).job) : rjobs[s][i].st # "stopping"
    /\ extr' = [extr EXCEPT ![s] = Tail(@)]
    /\ UNCHANGED <<link, up, down, rjobs, drops>>

-----------------------------------------------------------------------------
(* The server's compile lane: one slot, FIFO. *)

Slot(s) == {i \in DOMAIN rjobs[s] : rjobs[s][i].st \in {"running", "stopping"}}

ServerTake(s) ==
    /\ Slot(s) = {}
    /\ \E i \in DOMAIN rjobs[s] :
         /\ rjobs[s][i].st = "queued"
         /\ \A k \in DOMAIN rjobs[s] : rjobs[s][k].st = "queued" => i <= k
         /\ rjobs' = [rjobs EXCEPT ![s][i].st = "running"]
    /\ UNCHANGED <<link, up, down, extr, drops>>

\* The build ends; "provision" is a failure to get the offloader's esphome version.
ServerEnd(s, result) ==
    /\ \E i \in Slot(s) :
         LET r   == rjobs[s][i]
             end == IF r.st = "stopping" THEN "cancelled" ELSE result
         IN  /\ rjobs' = [rjobs EXCEPT ![s] =
                            Ended(@, i, IF end = "provision" THEN "failed" ELSE end)]
             /\ Tell(s, <<Frame(end, r.job, r.att)>>)
    /\ UNCHANGED <<link, up, extr, drops>>

-----------------------------------------------------------------------------
(* The peer link: one WebSocket session per pairing, re-dialled for ever. *)

\* Both ends lose the session: what was on the wire is gone, and a frame a running
\* extract would send through the old session goes nowhere.
LinkDrop(s) ==
    /\ link[s] = "up" /\ drops < MaxDrops
    /\ link' = [link EXCEPT ![s] = "closing"]
    /\ up' = [up EXCEPT ![s] = <<>>] /\ down' = [down EXCEPT ![s] = <<>>]
    /\ extr' = [extr EXCEPT ![s] = [i \in DOMAIN @ |-> [@[i] EXCEPT !.live = FALSE]]]
    /\ drops' = drops + 1
    /\ UNCHANGED rjobs

LinkState(s, from, to) ==
    /\ link[s] = from /\ link' = [link EXCEPT ![s] = to]
    /\ UNCHANGED <<up, down, extr, rjobs, drops>>

ServerInit ==
    /\ link = [s \in Server |-> "down"]
    /\ up = [s \in Server |-> <<>>] /\ down = [s \in Server |-> <<>>]
    /\ extr = [s \in Server |-> <<>>] /\ rjobs = [s \in Server |-> <<>>]

ServerStep(s) ==
    \/ ReceiveSubmit(s) \/ ReceiveCancel(s) \/ ReceiveFetch(s)
    \/ ExtractCancelled(s) \/ ExtractFails(s) \/ ExtractDone(s) \/ Handoff(s)
    \/ ServerTake(s) \/ \E r \in {"completed", "failed", "provision"} : ServerEnd(s, r)
=============================================================================
