------------------------------ MODULE JobStream ------------------------------
(***************************************************************************)
(* One WebSocket client that watches firmware jobs through a stream of the  *)
(* event bus: stream_events and its bounded queue, under the four commands  *)
(* that use it.  "tail" is firmware/follow_job, "legacy" the old dashboard's *)
(* command socket, both of one job; "panel" is firmware/follow_jobs and     *)
(* "state" subscribe_events, of every job.  The bus calls its listeners     *)
(* synchronously, so what fires and what every policy enqueues is one step; *)
(* the client is as slow as it likes.  Jobs are as much of a firmware job   *)
(* as is told: its stage, its output and whether its last event has fired.  *)
(***************************************************************************)
EXTENDS Sequences, Integers

CONSTANTS MaxJob,    \* jobs that are submitted
          MaxLine,   \* output lines of one job
          QueueMax   \* queue_max

ASSUME StreamAssumption == MaxJob \in Nat \ {0} /\ MaxLine \in Nat /\ QueueMax \in Nat \ 0..3

VARIABLES
    work,   \* the jobs, in order of creation
    kind,   \* which command streams
    watch,  \* the job it follows
    phase,  \* "off", "reading" a sidecar, "seeding", "live", "ended", "closed" on overflow, "left"
    seed,   \* frames of the initial replay still to be sent
    ends,   \* does the replay end the stream?
    queue,  \* the stream's queue
    got,    \* frames the client was sent
    lost    \* did the client ever miss anything?

streamVars == <<work, kind, watch, phase, seed, ends, queue, got, lost>>
followVars == <<kind, watch, phase, seed, ends, got>>

Jobs == 1..Len(work)

\* A frame: a job's n-th line, its stage, or its result; or one of the queue's two sentinels.
Line(j, n)   == <<"line", j, n>>
Stage(j, n)  == <<"stage", j, n>>
Result(j)    == <<"result", j, 0>>
End          == <<"end", 0, 0>>
Terminate    == <<"terminate", 0, 0>>
Queued == 0  Running == 1  Done == 2

Lines(j, n) == [i \in 1..n |-> Line(j, i)]

StreamInit ==
    /\ work = <<>> /\ kind \in {"tail", "legacy", "panel", "state"} /\ watch = 0 /\ phase = "off"
    /\ seed = <<>> /\ ends = FALSE /\ queue = <<>> /\ got = <<>> /\ lost = FALSE

-----------------------------------------------------------------------------
(* The queue's policies, from a buffer and whether it has lost anything. *)

Full(b) == Len(b.q) = QueueMax

\* push: the newest is dropped.
BugPush(b, item) == [b EXCEPT !.q = Append(@, item)]
Push(b, item) == IF Full(b) THEN [b EXCEPT !.lost = TRUE] ELSE [b EXCEPT !.q = Append(@, item)]

\* push_priority and end: the oldest is evicted.
BugWeakPriority(b, item) == Push(b, item)
PushPriority(b, item) == IF Full(b) THEN [q |-> Append(Tail(b.q), item), lost |-> TRUE]
                         ELSE [b EXCEPT !.q = Append(@, item)]
LetGo(b, j) == PushPriority(PushPriority(b, Result(j)), End)

\* push_or_terminate
BugPushOrTerminate(b, item) == Push(b, item)
PushOrTerminate(b, item) == IF Full(b) THEN PushPriority(b, Terminate) ELSE [b EXCEPT !.q = Append(@, item)]

Buffer == [q |-> queue, lost |-> lost]
Hold(b) == queue' = b.q /\ lost' = b.lost

OneJob == kind \in {"tail", "legacy"}

\* _handle_event of each command, for a line or a stage that fires.
Handled(item) ==
    LET b == Buffer IN
      CASE kind = "state" -> PushOrTerminate(b, item)
        [] kind = "panel" -> IF item[1] = "line" THEN Push(b, item) ELSE PushPriority(b, item)
        [] OneJob /\ item[1] = "line" /\ item[2] = watch -> Push(b, item)
        [] OneJob /\ item[1] = "stage" /\ item[2] = watch /\ item[3] = Done -> LetGo(b, watch)
        [] OTHER -> b

\* bus.fire: the listener is there from the replay on.
BugListening == phase = "live"
Listening == phase \in {"seeding", "live"}
Fires(item) == Hold(IF Listening THEN Handled(item) ELSE Buffer)

-----------------------------------------------------------------------------
(* The jobs. *)

Submit ==
    /\ Len(work) < MaxJob
    /\ work' = Append(work, [stage |-> Queued, told |-> Queued, lines |-> 0, ram |-> 0, disk |-> 0])
    /\ Fires(Stage(Len(work) + 1, Queued)) /\ UNCHANGED followVars

Begin(j) ==
    /\ work[j].stage = Queued
    /\ work' = [work EXCEPT ![j].stage = Running, ![j].told = Running]
    /\ Fires(Stage(j, Running)) /\ UNCHANGED followVars

Output(j) ==
    /\ work[j].stage = Running /\ work[j].lines < MaxLine
    /\ work' = [work EXCEPT ![j].lines = @ + 1, ![j].ram = @ + 1]
    /\ Fires(Line(j, work[j].lines + 1)) /\ UNCHANGED followVars

\* finalize_terminal: stamped and told at once.
Finish(j) ==
    /\ work[j].stage = Running
    /\ work' = [work EXCEPT ![j].stage = Done, ![j].told = Done]
    /\ Fires(Stage(j, Done)) /\ UNCHANGED followVars

\* The cancel of a queued job saves between the stamp and the event.
CancelQueued(j) ==
    /\ work[j].stage = Queued /\ work' = [work EXCEPT ![j].stage = Done]
    /\ UNCHANGED <<followVars, queue, lost>>
CancelTold(j) ==
    /\ work[j].stage = Done /\ work[j].told # Done /\ work' = [work EXCEPT ![j].told = Done]
    /\ Fires(Stage(j, Done)) /\ UNCHANGED followVars

\* The save flushes the output to its sidecar, in a worker thread, then drops it from RAM.
Flush(j) ==
    \/ work[j].disk # work[j].ram /\ work' = [work EXCEPT ![j].disk = work[j].ram]
    \/ work[j].disk = work[j].ram /\ work' = [work EXCEPT ![j].ram = 0]
Save(j) == work[j].stage = Done /\ work[j].ram > 0 /\ Flush(j) /\ UNCHANGED <<followVars, queue, lost>>

-----------------------------------------------------------------------------
(* The stream. *)

Rows == [j \in Jobs |-> Stage(j, work[j].stage)]

\* The legacy socket queues its replay, and perhaps the exit, before the drain starts; a log that is in its sidecar
\* already is not replayed.
Replayed(j) ==
    LET n == work[j].ram
        b == [q |-> Lines(j, IF n > QueueMax THEN QueueMax ELSE n), lost |-> n > QueueMax \/ n < work[j].lines] IN
      IF work[j].stage = Done THEN LetGo(b, j) ELSE b

\* The output in RAM is frozen as the listener attaches; a finished job's may be in its sidecar by now.
FollowOne(j) ==
    /\ watch' = j
    /\ IF kind = "legacy"
       THEN phase' = "live" /\ Hold(Replayed(j)) /\ UNCHANGED <<seed, ends>>
       ELSE /\ UNCHANGED <<queue, lost>> /\ ends' = (work[j].stage = Done)
            /\ IF work[j].ram = 0 /\ work[j].stage = Done
               THEN phase' = "reading" /\ UNCHANGED seed
               ELSE phase' = "seeding" /\ seed' = Lines(j, work[j].ram) \o (IF ends' THEN <<Result(j)>> ELSE <<>>)

FollowAll == phase' = "seeding" /\ seed' = Rows /\ UNCHANGED <<watch, ends, queue, lost>>

Follow ==
    /\ phase = "off"
    /\ IF OneJob THEN \E j \in Jobs : FollowOne(j) ELSE FollowAll
    /\ UNCHANGED <<work, kind, got>>

\* read_job_output
ReadHistory ==
    /\ phase = "reading" /\ phase' = "seeding"
    /\ seed' = Lines(watch, work[watch].disk) \o <<Result(watch)>>
    /\ UNCHANGED <<work, kind, watch, ends, queue, got, lost>>

\* send_initial: one frame at a time, but for subscribe_events, whose rows are one frame.
SendSeed ==
    /\ phase = "seeding"
    /\ LET n == IF kind = "state" THEN Len(seed) ELSE IF seed = <<>> THEN 0 ELSE 1 IN
         got' = got \o SubSeq(seed, 1, n) /\ seed' = SubSeq(seed, n + 1, Len(seed))
    /\ IF seed' = <<>>
       THEN phase' = "live" /\ Hold(IF ends THEN PushPriority(Buffer, End) ELSE Buffer)
       ELSE UNCHANGED <<phase, queue, lost>>
    /\ UNCHANGED <<work, kind, watch, ends>>

Drain ==
    /\ phase = "live" /\ queue # <<>> /\ queue' = Tail(queue)
    /\ phase' = IF Head(queue) = End THEN "ended" ELSE IF Head(queue) = Terminate THEN "closed" ELSE "live"
    /\ got' = IF phase' = "live" THEN Append(got, Head(queue)) ELSE got
    /\ UNCHANGED <<work, kind, watch, seed, ends, lost>>

\* stop_stream, or the socket closes: the task is cancelled and the listeners go.
Leave ==
    /\ phase \in {"reading", "seeding", "live"} /\ phase' = "left"
    /\ UNCHANGED <<work, kind, watch, seed, ends, queue, got, lost>>

JobStep(j) == Begin(j) \/ Output(j) \/ Finish(j) \/ CancelQueued(j) \/ CancelTold(j) \/ Save(j)
StreamNext == Submit \/ (\E j \in Jobs : JobStep(j)) \/ Follow \/ ReadHistory \/ SendSeed \/ Drain \/ Leave

\* A client reads what it is sent; one that does not is cut off by the heartbeat, and leaves.
StreamFairness == WF_streamVars(ReadHistory) /\ WF_streamVars(SendSeed) /\ WF_streamVars(Drain)

StreamSpec == StreamInit /\ [][StreamNext]_streamVars /\ StreamFairness

-----------------------------------------------------------------------------
(* What must hold. *)

StreamTypeOK ==
    /\ kind \in {"tail", "legacy", "panel", "state"} /\ watch \in 0..Len(work)
    /\ phase \in {"off", "reading", "seeding", "live", "ended", "closed", "left"}
    /\ Len(queue) <= QueueMax /\ ends \in BOOLEAN /\ lost \in BOOLEAN
    /\ \A j \in Jobs : work[j].told <= work[j].stage /\ work[j].ram \in {0, work[j].lines}

\* What the client has, or has coming.
Told == got \o seed \o queue
LinesOf(t) == {i \in DOMAIN t : t[i][1] = "line" /\ t[i][2] = watch}

\* The replay and the live tail of a job meet without a gap and without an overlap: each of its lines once, in
\* order, and none missing unless the queue overflowed; also when the job ended and moved to its sidecar meanwhile.
\* However saturated the queue was, a follower that is let go has been told the result, last.
FollowerIsTold ==
    /\ OneJob /\ (Listening \/ phase = "ended") =>
          LET t == Told IN
            /\ \A i, k \in LinesOf(t) : i < k => t[i][3] < t[k][3]
            /\ ~lost => {t[i][3] : i \in LinesOf(t)} = 1..work[watch].lines
    /\ phase = "ended" => got # <<>> /\ got[Len(got)] = Result(watch)

\* A follower of a job that ended is let go.
FollowerIsReleased == []<>~(OneJob /\ Listening /\ work[watch].told = Done)

\* The last that a client who was told t has heard of a job is where it is.
Knows(t, j) ==
    \E i \in DOMAIN t :
       /\ t[i] \in {Stage(j, work[j].told), Stage(j, work[j].stage)}
       /\ \A k \in DOMAIN t : t[k][1] = "stage" /\ t[k][2] = j => k <= i

\* A client of subscribe_events knows where every job is, or its connection is about to be closed.
StaleClientIsCutOff ==
    kind = "state" /\ Listening => (\A j \in Jobs : Knows(Told, j)) \/ \E i \in 1..Len(queue) : queue[i] = Terminate
=============================================================================
