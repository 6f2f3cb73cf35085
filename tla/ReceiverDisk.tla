----------------------------- MODULE ReceiverDisk -----------------------------
(***************************************************************************)
(* What a build server keeps on disk for its offloaders and who removes it: *)
(* the extract of each bundle, the data dir an offloader's builds share and *)
(* the venv of a pinned esphome version, under uploads, extracts, the       *)
(* compile lane, resets, downloads, the hourly cleanup, the sweep of stale  *)
(* venvs at start, and restarts.  One configuration per offloader.          *)
(***************************************************************************)
EXTENDS Naturals, Sequences, Keeping

CONSTANTS
    Peer,       \* approved offloaders
    MaxBundle,  \* bound on submissions
    MaxFault    \* bound on sessions that end, steps that fail, resets and restarts

ASSUME DiskAssumption == MaxBundle \in Nat /\ MaxFault \in Nat /\ "reset" \notin Peer

VARIABLES
    life,   \* "lanes" (firmware started, the receiver not), "stale" (sweep_stale at work), "serving"
    peer,   \* per offloader: air, pend, hop: its bundles; tree, tools: its directories; and below
    lane,   \* the active jobs of the compile lane, the one its worker holds first
    step,   \* where that worker is
    flagged,\* the job it runs is to be cancelled
    venv,   \* the pinned version's: st; ok, built or probed in this life; rm, given out as sweep_stale removes it
    sweep,  \* the cleanup: where it is, the offloader at hand, and whether that has a key in flight
    spent   \* what was used of the bounds

diskVars == <<life, peer, lane, step, flagged, venv, sweep, spent>>

\* air: "upload" (in _inflight) or "ack" (in neither registry); pend: tasks of the extract window; hop: the one
\* with the offloader's lock, "write" in the executor, "made" back from it; tree: "cold" past the TTL; tools: the
\* data dir; hit: a reset ran since this extract began, or the cleanup was at its offloader as it began;
\* spoilt: the same of the extract of its latest job; done: a COMPLETED job is listed; pack: a download reads.
Blank == [air |-> "none", pend |-> 0, hop |-> "none", tree |-> "none", tools |-> "none",
          hit |-> FALSE, spoilt |-> FALSE, done |-> FALSE, pack |-> FALSE]
AtRest == [at |-> "off", who |-> "none", kept |-> FALSE]

Spends(what, n) == spent[what] < n /\ spent' = [spent EXCEPT ![what] = @ + 1]
Fault == Spends("fault", MaxFault)
BundleOf(p) == [who |-> p, by |-> p]
ResetBy(p) == [who |-> "reset", by |-> p]
Busy == step # "idle"                                        \* the worker holds the lane's first job
Waiting == IF Busy THEN Tail(lane) ELSE lane
Front == IF Busy THEN <<Head(lane)>> ELSE <<>>
WithJob == {lane[k].who : k \in DOMAIN lane}
laneVars == <<lane, step, flagged>>

----------------------------------------------------------------------------
(* submit_job: header, last chunk, ack, and the extract off the receive loop *)

Header(p) ==
    /\ life = "serving" /\ peer[p].air = "none" /\ Spends("bundle", MaxBundle)
    /\ peer' = [peer EXCEPT ![p].air = "upload"]
    /\ UNCHANGED <<life, laneVars, venv, sweep>>

\* The last chunk takes the bundle out of _inflight, and the ack is awaited before its extract task exists.
LastChunk(p) ==
    /\ peer[p].air = "upload" /\ peer' = [peer EXCEPT ![p].air = "ack"]
    /\ UNCHANGED <<life, laneVars, venv, sweep, spent>>
Acked(p) ==
    /\ peer[p].air = "ack" /\ peer' = [peer EXCEPT ![p].air = "none", ![p].pend = @ + 1]
    /\ UNCHANGED <<life, laneVars, venv, sweep, spent>>

\* A session that ends drops its upload and cancels its download.
SessionEnds(p) ==
    /\ peer[p].air = "upload" \/ peer[p].pack
    /\ peer' = [peer EXCEPT ![p].air = IF @ = "upload" THEN "none" ELSE @, ![p].pack = FALSE]
    /\ Fault /\ UNCHANGED <<life, laneVars, venv, sweep>>

\* Under the offloader's lock prepare_bundle_for_compile empties the extract and fills it again.
ExtractBegins(p) ==
    /\ peer[p].pend > 0 /\ peer[p].hop = "none"
    /\ peer' = [peer EXCEPT ![p].hop = "write", ![p].tree = "part",
                           ![p].hit = (sweep.who = p /\ sweep.at # "walk")]
    /\ UNCHANGED <<life, laneVars, venv, sweep, spent>>
ExtractEnds(p) ==
    /\ peer[p].hop = "write"
    /\ \/ /\ peer' = [peer EXCEPT ![p].hop = "made", ![p].tree = "warm"]
          /\ UNCHANGED spent
       \/ Fault /\ peer' = [peer EXCEPT ![p].hop = "none", ![p].pend = @ - 1]
    /\ UNCHANGED <<life, laneVars, venv, sweep>>

\* The job is created and placed, and supersedes the one of its configuration.
QueueExtract(p) ==
    /\ peer[p].hop = "made"
    /\ peer' = [peer EXCEPT ![p].hop = "none", ![p].pend = @ - 1, ![p].spoilt = peer[p].hit, ![p].hit = FALSE]
    /\ lane' = Front \o Append(Keep(Waiting, {k \in DOMAIN Waiting : Waiting[k].who # p}), BundleOf(p))
    /\ flagged' = (flagged \/ (Busy /\ Head(lane).who = p))
    /\ UNCHANGED <<life, step, venv, sweep, spent>>

----------------------------------------------------------------------------
(* The compile lane and its one worker *)

Take ==
    /\ ~Busy /\ lane # <<>> /\ step' = IF Head(lane).who = "reset" THEN "wipe" ELSE "resolve"
    /\ UNCHANGED <<life, peer, lane, flagged, venv, sweep, spent>>

Over == lane' = Tail(lane) /\ step' = "idle" /\ flagged' = FALSE
\* esphome works in the extract and makes the data dir.
Compiles(with) ==
    /\ step' = with /\ UNCHANGED <<lane, flagged>>
    /\ peer' = [peer EXCEPT ![Head(lane).who].tools = IF @ = "none" THEN "there" ELSE @]

\* _resolve_esphome_cmd: the installed esphome or the pinned one; until the receiver has started there is no
\* provisioner and the job fails.
Resolve ==
    /\ step = "resolve"
    /\ \/ Compiles("installed")
       \/ life = "lanes" /\ Over /\ UNCHANGED peer
       \/ life # "lanes" /\ step' = "provision" /\ UNCHANGED <<peer, lane, flagged>>
    /\ UNCHANGED <<life, venv, sweep, spent>>

\* provision: a venv verified in this life and on disk, or one the probe finds healthy; else it is built anew.
Warm == venv.ok /\ venv.st # "none"
Provision ==
    /\ step = "provision"
    /\ \/ /\ Warm \/ venv.st = "whole"
          /\ Compiles("pinned") /\ venv' = [venv EXCEPT !.ok = TRUE, !.rm = venv.rm /\ life = "stale"]
       \/ /\ ~Warm /\ venv.st # "whole"
          /\ venv' = [st |-> "part", ok |-> FALSE, rm |-> venv.rm /\ life = "stale"]
          /\ step' = "pip" /\ UNCHANGED <<peer, lane, flagged>>
    /\ UNCHANGED <<life, sweep, spent>>
Installs ==
    /\ step = "pip"
    /\ \/ venv.st = "part" /\ venv' = [venv EXCEPT !.st = "whole", !.ok = TRUE] /\ Compiles("pinned") /\ UNCHANGED spent
       \/ /\ IF venv.st = "part" THEN Fault ELSE UNCHANGED spent
          /\ venv' = [venv EXCEPT !.st = "none"] /\ Over /\ UNCHANGED peer
    /\ UNCHANGED <<life, sweep>>

\* The build ends: COMPLETED, FAILED, or CANCELLED when it was flagged.
BuildEnds ==
    /\ step \in {"installed", "pinned"} /\ Over
    /\ LET p == Head(lane).who IN
         \/ ~flagged /\ peer[p].tree # "none" /\ peer' = [peer EXCEPT ![p].done = TRUE] /\ UNCHANGED spent
         \/ (flagged \/ peer[p].tree = "none") /\ UNCHANGED <<peer, spent>>
         \/ Fault /\ UNCHANGED peer
    /\ UNCHANGED <<life, venv, sweep>>

\* esphome clean-all removes everything under .esphome, then clean_all the venvs, unless the job failed or is
\* cancelled.
Wipe ==
    /\ step = "wipe"
    /\ \/ ~flagged /\ step' = "venvs" /\ UNCHANGED <<lane, flagged, spent>>
       \/ flagged /\ Over /\ UNCHANGED spent
       \/ Fault /\ Over
    /\ peer' = [p \in Peer |-> [peer[p] EXCEPT !.tree = "none", !.tools = "none", !.hit = (@ \/ peer[p].hop # "none"),
                                               !.spoilt = (@ \/ p \in WithJob)]]
    /\ UNCHANGED <<life, venv, sweep>>
WipeVenvs ==
    /\ step = "venvs" /\ venv' = [venv EXCEPT !.st = "none", !.ok = FALSE] /\ Over
    /\ UNCHANGED <<life, peer, sweep, spent>>

----------------------------------------------------------------------------
(* Resets and downloads *)

InAir(p) == peer[p].air = "upload" \/ peer[p].pend > 0

\* A peer's reset is refused while anything is active; it cancels nobody.
ResetBusy == lane # <<>> \/ \E p \in Peer : InAir(p) \/ peer[p].pack
PeerReset(p) ==
    /\ life = "serving" /\ ~ResetBusy /\ Fault /\ lane' = Append(lane, ResetBy(p))
    /\ UNCHANGED <<life, peer, step, flagged, venv, sweep>>

\* The local command cancels every job first.
UserReset ==
    /\ life = "serving" /\ Fault /\ lane' = Append(Front, ResetBy("user")) /\ flagged' = Busy
    /\ UNCHANGED <<life, peer, step, venv, sweep>>

\* A download is refused while a reset is active.
DownloadBusy == "reset" \in WithJob
Download(p) ==
    /\ life = "serving" /\ peer[p].done /\ ~peer[p].pack /\ ~DownloadBusy
    /\ peer' = [peer EXCEPT ![p].pack = TRUE]
    /\ UNCHANGED <<life, laneVars, venv, sweep, spent>>
PackEnds(p) ==
    /\ peer[p].pack /\ peer' = [peer EXCEPT ![p].pack = FALSE]
    /\ UNCHANGED <<life, laneVars, venv, sweep, spent>>

----------------------------------------------------------------------------
(* The cleanup, in an executor thread: what is cold was cold when it began.  One *)
(* walk looks at one offloader, any time after the keys were read.               *)

Age(p) ==
    /\ sweep.at = "off" /\ peer[p].hop = "none" /\ peer[p].tree \in {"warm", "part"} /\ peer' = [peer EXCEPT ![p].tree = "cold"]
    /\ UNCHANGED <<life, laneVars, venv, sweep, spent>>

BugKeys == IF Busy THEN {Head(lane).who} ELSE {}
Keys == WithJob \ {"reset"}
SweepBegins(p) ==
    /\ life = "serving" /\ sweep.at = "off"
    /\ sweep' = [at |-> "walk", who |-> p, kept |-> p \in Keys]
    /\ UNCHANGED <<life, peer, laneVars, venv, spent>>

Goes(to) == sweep' = [sweep EXCEPT !.at = to]
Doomed(p) == ~sweep.kept /\ peer[p].tree = "cold"
Idle(p) == ~sweep.kept /\ peer[p].tree = "none"

\* Its cold extract, then its data dir if nothing is left of it.
Look(p) ==
    /\ sweep.at = "walk" /\ sweep.who = p
    /\ Goes(IF Doomed(p) THEN "tree" ELSE "live") /\ UNCHANGED <<life, peer, laneVars, venv, spent>>
RemoveTree(p) ==
    /\ sweep.at = "tree" /\ sweep.who = p /\ peer' = [peer EXCEPT ![p].tree = "none"]
    /\ Goes("live") /\ UNCHANGED <<life, laneVars, venv, spent>>
LookIdle(p) ==
    /\ sweep.at = "live" /\ sweep.who = p
    /\ IF Idle(p) /\ peer[p].tools = "there"
         THEN peer' = [peer EXCEPT ![p].tools = "going"] /\ Goes("data")
         ELSE sweep' = AtRest /\ UNCHANGED peer
    /\ UNCHANGED <<life, laneVars, venv, spent>>
RemoveTools(p) ==
    /\ sweep.at = "data" /\ sweep.who = p /\ peer' = [peer EXCEPT ![p].tools = "none"]
    /\ sweep' = AtRest /\ UNCHANGED <<life, laneVars, venv, spent>>

----------------------------------------------------------------------------
(* The life of the process *)

\* ReceiverController.start: the provisioner exists from here on, while sweep_stale removes the venvs of versions
\* older than the installed one.
ReceiverStarts ==
    /\ life = "lanes" /\ life' = "stale" /\ \E old \in BOOLEAN : venv' = [venv EXCEPT !.rm = old /\ venv.st # "none"]
    /\ UNCHANGED <<peer, laneVars, sweep, spent>>
Serves ==
    /\ life = "stale" /\ life' = "serving"
    /\ venv' = IF venv.rm THEN [venv EXCEPT !.st = "none", !.ok = FALSE] ELSE venv
    /\ UNCHANGED <<peer, laneVars, sweep, spent>>

\* Uploads, extracts and downloads are lost; active jobs are queued again.
Restart ==
    /\ Fault /\ life' = "lanes" /\ step' = "idle" /\ flagged' = FALSE /\ sweep' = AtRest
    /\ peer' = [p \in Peer |-> [peer[p] EXCEPT !.air = "none", !.pend = 0, !.hop = "none", !.pack = FALSE,
                                               !.tools = IF @ = "going" THEN "there" ELSE @]]
    /\ venv' = [st |-> IF venv.rm THEN "part" ELSE venv.st, ok |-> FALSE, rm |-> FALSE]
    /\ lane' = lane

DiskInit ==
    /\ life = "serving" /\ peer = [p \in Peer |-> Blank] /\ lane = <<>> /\ step = "idle" /\ flagged = FALSE
    /\ venv = [st |-> "none", ok |-> FALSE, rm |-> FALSE] /\ sweep = AtRest /\ spent = [bundle |-> 0, fault |-> 0]

DiskNext ==
    \/ Take \/ Resolve \/ Provision \/ Installs \/ BuildEnds \/ Wipe \/ WipeVenvs
    \/ UserReset \/ ReceiverStarts \/ Serves \/ Restart
    \/ \E p \in Peer :
          \/ Header(p) \/ LastChunk(p) \/ Acked(p) \/ SessionEnds(p)
          \/ ExtractBegins(p) \/ ExtractEnds(p) \/ QueueExtract(p)
          \/ PeerReset(p) \/ Download(p) \/ PackEnds(p) \/ Age(p)
          \/ SweepBegins(p) \/ Look(p) \/ RemoveTree(p) \/ LookIdle(p) \/ RemoveTools(p)

DiskSpec == DiskInit /\ [][DiskNext]_diskVars

----------------------------------------------------------------------------
DiskTypeOK ==
    /\ life \in {"lanes", "stale", "serving"} /\ flagged \in BOOLEAN
    /\ step \in {"idle", "resolve", "provision", "pip", "installed", "pinned", "wipe", "venvs"}
    /\ Busy => lane # <<>>
    /\ \A p \in Peer : peer[p].tree \in {"none", "part", "warm", "cold"} /\ peer[p].tools \in {"none", "there", "going"}
    /\ venv \in [st : {"none", "part", "whole"}, ok : BOOLEAN, rm : BOOLEAN] /\ sweep.at \in {"off", "walk", "tree", "live", "data"}

\* Whoever removes directories keeps off those in use.  A build that is not being cancelled, and whose extract no
\* reset removed before it began, has its extract, its offloader's data dir and the venv it runs from; a download
\* packs while a reset wipes only if the reset is the operator's own.
RemoversKeepOff ==
    /\ step \in {"installed", "pinned"} /\ ~flagged =>
          LET p == peer[Head(lane).who] IN
             \/ p.spoilt
             \/ p.tree # "none" /\ p.tools = "there" /\ (step = "pinned" => venv.st = "whole" \/ venv.rm)
    /\ step = "wipe" => Head(lane).by = "user" \/ \A p \in Peer : ~peer[p].pack
=============================================================================
