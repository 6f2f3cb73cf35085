---------------------------- MODULE DeferredInstall ----------------------------
(***************************************************************************)
(* Updates queued for a device that sleeps: the listeners, the calls and   *)
(* the finalisation of controllers/firmware/{controller, factories,        *)
(* lifecycle, clean}.py that arm, dispatch and disarm a queued update, for *)
(* one device.                                                             *)
(*                                                                         *)
(* An install of an OFFLINE device is a compile only; when it completes    *)
(* the device is armed, and when it wakes an upload is dispatched, which   *)
(* disarms it once it completed.  The queue is FirmwareQueue seen from     *)
(* afar: the active jobs of the device in the order of the job map (and a  *)
(* reset of the build environment), where a job that ended leaves and a    *)
(* cancel takes the dependents along in one step.  A failed or stopped     *)
(* compile leaves the binary of the one before.                            *)
(***************************************************************************)
EXTENDS Naturals, Sequences, FiniteSets, Keeping

CONSTANTS
    Slot,     \* bound: jobs active or saved at the same time
    Image,    \* what the user flashes: "app", and "boot" for the bootloader
    Early,    \* may the device answer before load_jobs has restored the map?
    Loose,    \* may a crash fall between a change and its write?
    Allowed   \* bound: the user's calls, failed flashes and crashes of a behaviour

ASSUME DeferAssumption == 0 \notin Slot /\ Image \subseteq {"app", "boot"}

VARIABLES
    on,      \* the firmware controller has loaded its jobs
    state,   \* runtime_state.state of the device
    armed,   \* runtime_state.queued_update
    stored,  \* queued_update in the device store's file
    jobs,    \* FirmwareState.jobs: the active ones, in map order
    disk,    \* the jobs as last saved
    calls,   \* calls and dispatches that await
    built,   \* the build tree holds a binary
    other,   \* another device's job: "queued" in the map, "out" (saved, not loaded), "ended" or "lost"
    kept,    \* that job is saved
    owed,    \* history: a build has not reached the device nor been taken back
    spare    \* what is left of Allowed

deferVars == <<on, state, armed, stored, jobs, disk, calls, built, other, kept, owed, spare>>
NoJob == 0

Job == [id : Slot, type : {"compile", "app", "boot", "clean", "reset"},
        st : {"held", "queued", "running"},  \* held: QUEUED and on no lane
        dep : Slot \cup {NoJob},             \* depends_on
        deferred : BOOLEAN,                  \* is_deferred_install
        stop : BOOLEAN,                      \* in cancel_requested
        stale : BOOLEAN]                     \* history: a build completed since the flash began

BugNew(i, t) == [id |-> i, type |-> t, st |-> "idle", dep |-> NoJob,
                 deferred |-> FALSE, stop |-> FALSE, stale |-> FALSE]
New(i, t) == [id |-> i, type |-> t, st |-> "queued", dep |-> NoJob,
              deferred |-> FALSE, stop |-> FALSE, stale |-> FALSE]

Ids(js)    == {js[k].id : k \in DOMAIN js}
Active     == {jobs[k] : k \in DOMAIN jobs}
IsFlash(r) == r.type \in {"app", "boot"}
Wipes(r)   == r.type \in {"clean", "reset"}
Mark(js, I, F(_)) == [k \in DOMAIN js |-> IF js[k].id \in I THEN F(js[k]) ELSE js[k]]
Without(js, i)    == Keep(js, {k \in DOMAIN js : js[k].id # i})

\* A fresh id: nothing in memory, on disk or in a call has it.
Unused == Slot \ (Ids(jobs) \cup Ids(disk) \cup UNION {{c.id} \cup {c.left[k] : k \in DOMAIN c.left} : c \in calls})

-----------------------------------------------------------------------------
(* Calls.  One awaits after each cancel; what it still does then:          *)
(* "end" nothing but the save, "place" its reset on the lane, "clean" the  *)
(* whole of clean_mod.clean.                                               *)

\* cancel: a queued job ends and takes its dependents along, a running one is asked to stop.
Cancel(js, i) ==
    IF \E k \in DOMAIN js : js[k].id = i /\ js[k].st = "running"
    THEN Mark(js, {i}, LAMBDA r : [r EXCEPT !.stop = TRUE])
    ELSE Keep(js, {k \in DOMAIN js : i \notin {js[k].id, js[k].dep}})

Call(i, left, then) == [id |-> i, left |-> left, then |-> then]

\* A call's next stretch on the jobs js: what it makes of them, and what it leaves to do.
Resume(js, c) ==
    IF c.left = <<>>
    THEN [jobs |-> Mark(js, {c.id}, LAMBDA r : [r EXCEPT !.st = "queued"]), calls |-> {}]
    ELSE [jobs  |-> Cancel(js, Head(c.left)),
          calls |-> IF Len(c.left) = 1 /\ c.then = "end" THEN {} ELSE {[c EXCEPT !.left = Tail(@)]}]

\* The device's active jobs but the call's own; a reset belongs to no device.
BugOthers(js, mine) ==
    LET them == Keep(js, {k \in DOMAIN js : js[k].id \notin mine /\ js[k].type # "reset" /\ js[k].st # "running"})
    IN  [k \in DOMAIN them |-> them[k].id]
Others(js, mine) ==
    LET them == Keep(js, {k \in DOMAIN js : js[k].id \notin mine /\ js[k].type # "reset"})
    IN  [k \in DOMAIN them |-> them[k].id]

\* commit_chain: the new jobs are placed and the first of the others cancelled before it awaits.
CommitChain(js, new) ==
    LET left == Others(js, Ids(new))
    IN  IF left = <<>> THEN [jobs |-> js \o new, calls |-> {}]
        ELSE Resume(js \o new, Call(NoJob, left, "end"))

Commits(new) ==
    LET m == CommitChain(jobs, new) IN jobs' = m.jobs /\ calls' = calls \cup m.calls

Spend(what) == spare[what] > 0 /\ spare' = [spare EXCEPT ![what] = @ - 1]

-----------------------------------------------------------------------------
(* The device.  Its events reach the controller from its construction on.  *)

\* A wake flashes the queued update unless a flash of the device is active.
BugMayWake == armed
MayWake    == armed /\ ~\E r \in Active : IsFlash(r)
DeviceTurns(d) ==
    /\ state # d /\ state' = d
    /\ on \/ Early
    /\ IF d = "ONLINE" /\ MayWake
       THEN \E i \in Unused : Commits(<<New(i, "app")>>)
       ELSE UNCHANGED <<jobs, calls>>
    /\ UNCHANGED <<on, armed, stored, disk, built, other, kept, owed, spare>>

-----------------------------------------------------------------------------
(* The user's calls, from their last await before they change anything.    *)

Asks == on /\ Spend("call") /\ UNCHANGED <<on, state, stored, disk, built, other, kept>>
Disarms == armed' = FALSE /\ owed' = FALSE

\* A compile of the device; while it is OFFLINE an install is this, deferred.
Compile ==
    /\ Asks /\ UNCHANGED <<armed, owed>>
    /\ \E i \in Unused : Commits(<<New(i, "compile")>>)

InstallDefers ==
    /\ Asks /\ UNCHANGED <<armed, owed>>
    /\ state = "OFFLINE" /\ "app" \in Image
    /\ \E i \in Unused : Commits(<<[New(i, "compile") EXCEPT !.deferred = TRUE]>>)

\* Otherwise it is a chain, its upload held behind its compile: [dependent, head] in the map.
InstallChain ==
    /\ Asks /\ UNCHANGED <<armed, owed>>
    /\ state # "OFFLINE"
    /\ \E i, j \in Unused, f \in Image :
          /\ i # j
          /\ Commits(<<[New(j, f) EXCEPT !.st = "held", !.dep = i], New(i, "compile")>>)

Upload ==
    /\ Asks /\ UNCHANGED <<armed, owed>>
    /\ \E i \in Unused, f \in Image : Commits(<<New(i, f)>>)

\* A clean disarms, then awaits its validation.
Clean ==
    /\ Asks /\ Disarms /\ UNCHANGED jobs
    /\ calls' = calls \cup {Call(NoJob, <<>>, "clean")}

CommitClean ==
    \E c \in calls, i \in Unused :
        /\ c.then = "clean"
        /\ LET m == CommitChain(jobs, <<New(i, "clean")>>)
           IN  jobs' = m.jobs /\ calls' = (calls \ {c}) \cup m.calls
        /\ UNCHANGED <<on, state, armed, stored, disk, built, other, kept, owed, spare>>

\* A reset disarms and creates its job, sweeps every other one, and only then goes on the lane.
ResetBuildEnv ==
    /\ on /\ Spend("call") /\ Disarms
    /\ \E i \in Unused :
          LET all == [k \in DOMAIN jobs |-> jobs[k].id]
              m   == Resume(Append(jobs, [New(i, "reset") EXCEPT !.st = "held"]), Call(i, all, "place"))
          IN  jobs' = m.jobs /\ calls' = calls \cup m.calls
    /\ other' = "ended"
    /\ UNCHANGED <<on, state, stored, disk, built, kept>>

UserCancel ==
    /\ Asks /\ UNCHANGED <<armed, owed, calls>>
    /\ \E r \in Active : jobs' = Cancel(jobs, r.id)

ClearQueuedUpdate ==
    /\ Asks /\ armed /\ Disarms /\ UNCHANGED <<jobs, calls>>

CallStep ==
    \E c \in calls :
        /\ c.then # "clean"
        /\ LET m == Resume(jobs, c) IN jobs' = m.jobs /\ calls' = (calls \ {c}) \cup m.calls
        /\ UNCHANGED <<on, state, armed, stored, disk, built, other, kept, owed, spare>>

-----------------------------------------------------------------------------
(* The lanes, which work once the jobs are loaded.  A run that was asked to *)
(* stop ends cancelled; a reset awaits more before it ends, and may miss it. *)

UploadBlocked == \E r \in Active : Wipes(r)
Start(i) ==
    \E r \in Active :
        /\ on /\ r.id = i /\ r.st = "queued"
        /\ IF IsFlash(r) THEN ~UploadBlocked
           ELSE \A o \in Active : o.st = "running" => IsFlash(o)
        /\ jobs' = Mark(jobs, {i}, LAMBDA o : [o EXCEPT !.st = "running"])
        /\ UNCHANGED <<on, state, armed, stored, disk, calls, built, other, kept, owed, spare>>

\* A build takes longer than a call's sweep, and none lands in one (an assumption on time).
Sweeping == \E c \in calls : c.left # <<>>
Running(i, types) == {r \in Active : r.id = i /\ r.st = "running" /\ r.type \in types}
MayFail == Spend("fail")

\* Cancelled or failed: what is held on it is cancelled.
CompileFails(i) ==
    \E r \in Running(i, {"compile"}) :
        /\ IF ~r.stop THEN MayFail ELSE UNCHANGED spare
        /\ jobs' = Keep(jobs, {k \in DOMAIN jobs : i \notin {jobs[k].id, jobs[k].dep}})
        /\ UNCHANGED <<on, state, armed, stored, disk, calls, built, other, kept, owed>>

\* A chain whose device went OFFLINE while it built becomes a deferred install.
Converts(r) == state = "OFFLINE" /\ \E o \in Active : o.dep = r.id /\ o.st = "held" /\ o.type = "app"

\* finalize_terminal: defer, then the listeners (arm; flash at once if ONLINE), then the dependents.
CompileLands(i) ==
    \E r \in Running(i, {"compile"}) :
        LET flashed  == Mark(Without(jobs, i), {o.id : o \in {q \in Active : IsFlash(q) /\ q.st = "running"}},
                             LAMBDA o : [o EXCEPT !.stale = TRUE])
            deferred == r.deferred \/ Converts(r)
            freed    == IF deferred THEN Keep(flashed, {k \in DOMAIN flashed : flashed[k].dep # i})
                        ELSE Mark(flashed, {o.id : o \in {q \in Active : q.dep = i}},
                                  LAMBDA o : [o EXCEPT !.st = "queued", !.dep = NoJob])
        IN  /\ ~r.stop /\ ~Sweeping
            /\ built' = TRUE
            /\ armed' = (armed \/ deferred) /\ owed' = (owed \/ deferred)
            /\ IF deferred /\ state = "ONLINE"
               THEN \E j \in Unused : LET m == CommitChain(freed, <<New(j, "app")>>)
                                      IN  jobs' = m.jobs /\ calls' = calls \cup m.calls
               ELSE jobs' = freed /\ UNCHANGED calls
            /\ UNCHANGED <<on, state, stored, disk, other, kept, spare>>

\* A completed flash over the air disarms, be it of the bootloader.
FlashLands(i) ==
    \E r \in Running(i, {"app", "boot"}) :
        /\ ~r.stop /\ built
        /\ armed' = FALSE /\ owed' = (owed /\ (r.stale \/ r.type = "boot"))
        /\ jobs' = Without(jobs, i)
        /\ UNCHANGED <<on, state, stored, disk, calls, built, other, kept, spare>>

\* One of the app that fails while the device is OFFLINE arms.
FlashFails(i) ==
    \E r \in Running(i, {"app", "boot"}) :
        /\ IF ~r.stop /\ built THEN MayFail ELSE UNCHANGED spare
        /\ LET arms == ~r.stop /\ r.type = "app" /\ state = "OFFLINE"
           IN  armed' = (armed \/ arms) /\ owed' = (owed \/ arms)
        /\ jobs' = Without(jobs, i)
        /\ UNCHANGED <<on, state, stored, disk, calls, built, other, kept>>

WipeEnds(i) ==
    \E r \in Running(i, {"clean", "reset"}), gone \in BOOLEAN :
        /\ ~r.stop => gone
        /\ built' = (built /\ ~gone)
        /\ jobs' = Without(jobs, i)
        /\ UNCHANGED <<on, state, armed, stored, disk, calls, other, kept, owed, spare>>

End(i) == CompileFails(i) \/ CompileLands(i) \/ FlashLands(i) \/ FlashFails(i) \/ WipeEnds(i)

-----------------------------------------------------------------------------
(* The files, and a restart.  Every call and run ends with a save of the   *)
(* whole map, so one may come at any time; before the jobs are loaded only *)
(* the dispatch of a wake saves.                                           *)

Save ==
    /\ on \/ jobs # <<>>
    /\ <<disk, kept>> # <<jobs, other = "queued">>
    /\ disk' = jobs /\ kept' = (other = "queued")
    /\ UNCHANGED <<on, state, armed, stored, jobs, calls, built, other, owed, spare>>

\* The device store writes after a pause.
StoreFlush ==
    /\ stored # armed /\ stored' = armed
    /\ UNCHANGED <<on, state, armed, jobs, disk, calls, built, other, kept, owed, spare>>

\* No write is pending and no run is being stopped.
Written == stored = armed /\ disk = jobs /\ calls = {} /\ \A r \in Active : ~r.stop
Crash ==
    /\ Spend("crash")
    /\ Loose \/ Written
    /\ on' = FALSE /\ state' = "UNKNOWN" /\ armed' = stored
    /\ jobs' = <<>> /\ calls' = {}
    /\ other' = IF kept THEN "out" ELSE IF other = "lost" THEN "lost" ELSE "ended"
    /\ UNCHANGED <<stored, disk, built, kept, owed>>

\* load_jobs: what was active is queued again behind what the map has by now.
LoadJobs ==
    /\ ~on /\ on' = TRUE
    /\ LET saved == Keep(disk, {k \in DOMAIN disk : disk[k].id \notin Ids(jobs)})
       IN  jobs' = jobs \o [k \in DOMAIN saved |->
                       [saved[k] EXCEPT !.st = IF saved[k].dep = NoJob THEN "queued" ELSE "held",
                                        !.stop = FALSE, !.stale = FALSE]]
    /\ other' = IF other # "out" THEN other ELSE IF kept THEN "queued" ELSE "lost"
    /\ UNCHANGED <<state, armed, stored, disk, calls, built, kept, owed, spare>>

-----------------------------------------------------------------------------
DeferInit ==
    /\ on = TRUE /\ state = "UNKNOWN" /\ armed = FALSE /\ stored = FALSE
    /\ jobs = <<>> /\ disk = <<>> /\ calls = {} /\ built = FALSE
    /\ other = "queued" /\ kept = TRUE /\ owed = FALSE /\ spare = Allowed

DeferNext ==
    \/ \E d \in {"ONLINE", "OFFLINE"} : DeviceTurns(d)
    \/ Compile \/ InstallDefers \/ InstallChain \/ Upload \/ Clean \/ CommitClean
    \/ ResetBuildEnv \/ UserCancel \/ ClearQueuedUpdate \/ CallStep
    \/ \E i \in Slot : Start(i) \/ End(i)
    \/ Save \/ StoreFlush \/ Crash \/ LoadJobs

DeferFairness ==
    /\ WF_deferVars(DeviceTurns("ONLINE")) /\ WF_deferVars(DeviceTurns("OFFLINE"))
    /\ WF_deferVars(CommitClean) /\ WF_deferVars(CallStep)
    /\ \A i \in Slot : WF_deferVars(Start(i)) /\ WF_deferVars(End(i))
    /\ WF_deferVars(Save) /\ WF_deferVars(LoadJobs)

DeferSpec == DeferInit /\ [][DeferNext]_deferVars /\ DeferFairness

-----------------------------------------------------------------------------
DeferTypeOK ==
    /\ on \in BOOLEAN /\ state \in {"UNKNOWN", "ONLINE", "OFFLINE"}
    /\ armed \in BOOLEAN /\ stored \in BOOLEAN /\ built \in BOOLEAN /\ kept \in BOOLEAN /\ owed \in BOOLEAN
    /\ \A js \in {jobs, disk} : \A k, l \in DOMAIN js : js[k] \in Job /\ (js[k].id = js[l].id => k = l)
    /\ \A c \in calls : c.then \in {"end", "place", "clean"}
    /\ other \in {"queued", "out", "ended", "lost"}

\* A build that was to reach the device when it wakes stays armed until it has, or the user
\* takes it back: no flash of an older build, no failure and no restart forgets it.
OwedIsArmed == owed => armed

\* A device that keeps waking gets its queued update, or the update is taken back.
UpdateLands == armed /\ built ~> ~armed \/ ~built

\* Jobs survive a restart.
JobsSurviveRestart == other # "lost"
=============================================================================
