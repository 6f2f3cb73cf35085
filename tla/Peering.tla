------------------------------ MODULE Peering ------------------------------
(***************************************************************************)
(* One offloader and one build server (the receiver) that pair, keep a     *)
(* long-lived peer link, and find each other again after the receiver's    *)
(* address changed.  Both sides are asyncio programs: an action is the     *)
(* code between two awaits that really suspend.  The pair's keys do not    *)
(* change, so every handshake shows the pins both rows store.              *)
(***************************************************************************)
EXTENDS Integers, FiniteSets

CONSTANTS Conn,      \* connections that may exist at once
          Task,      \* peer-link client tasks that may exist at once
          Tab,       \* browser tabs holding the receiver's pairing window open
          Addr,      \* addresses the receiver may have
          Home,      \* the one it starts at
          NoOne,
          Budgets,   \* choices of how often each of drop, move, admin, ask and crash may happen
          Overlap    \* may an operator command or an endpoint change overlap unfinished work on the link?

ASSUME PeeringAssumption ==
    /\ Home \in Addr /\ NoOne \notin Conn \cup Task
    /\ \A b \in Budgets : b \in [{"drop", "move", "admin", "ask", "crash"} -> Nat]
    /\ Overlap \in BOOLEAN

VARIABLES
    (* receiver *)
    addr,      \* where its listener can be reached
    window,    \* tabs whose pairing-window deadline has not passed
    pending,   \* does pending_peers hold the offloader?
    peer,      \* its row in approved_peers: "none", "plain", or "port" once a session told its listener's port
    peerDisk,  \* that row in the peers store
    slot,      \* the connection in peer_link_sessions
    dial,      \* the connect-back dial task: "none", "out", or "held" while the offloader probes
    conn,      \* both ends of every peer_link connection
    (* offloader *)
    row,       \* its StoredPairing, with a generation for the object's identity
    rowDisk,   \* the approved row in the pairings store
    poll,      \* the pair-status listener
    req,       \* the request_pair command
    task,      \* peer-link client tasks
    handle,    \* the task in peer_link_clients
    openLink,  \* is the pin in open_peer_links?
    probing,   \* is the rebind probe slot claimed?
    rebind,    \* the endpoint changes under way, by what started them
    left       \* what is left of the budget

rcvVars  == <<addr, window, pending, peer, peerDisk, slot, dial>>
offVars  == <<row, rowDisk, poll, req, openLink, probing, rebind>>
linkVars == <<task, handle>>
peerVars == <<addr, window, pending, peer, peerDisk, slot, dial, conn,
              row, rowDisk, poll, req, task, handle, openLink, probing, rebind, left>>

Cause     == {"mdns", "back", "edit"}
FreeConn  == [cl |-> FALSE, sv |-> "none", told |-> FALSE, reply |-> "none", lost |-> FALSE]
FreeTask  == [ph |-> "free", host |-> Home, conn |-> NoOne]
NoRow     == [st |-> "none", host |-> Home, gen |-> 0]
NoRebind  == [st |-> "none", host |-> Home, gen |-> 0, victim |-> NoOne]
NoReq     == [st |-> "none", host |-> Home]

PeeringInit ==
    /\ addr = Home /\ window = {} /\ pending = FALSE
    /\ peer = "none" /\ peerDisk = "none" /\ slot = NoOne /\ dial = "none"
    /\ conn = [c \in Conn |-> FreeConn]
    /\ row = NoRow /\ rowDisk = NoRow /\ poll = "none" /\ req = NoReq
    /\ task = [k \in Task |-> FreeTask] /\ handle = NoOne
    /\ openLink = FALSE /\ probing = FALSE
    /\ rebind = [w \in Cause |-> NoRebind]
    /\ left \in Budgets

Spend(what) == left[what] > 0 /\ left' = [left EXCEPT ![what] = @ - 1]

-----------------------------------------------------------------------------
(* The offloader's client tasks. *)

Alive(h) == h # NoOne /\ task[h].ph \notin {"done", "superseded"}
\* spawn_peer_link_client, once the tasks are as in t: nothing while the task in the handle still runs.
\* That a record is free for the new one is a bound of the model.
SpawnFrom(t, host) ==
    IF Alive(handle) THEN task' = t /\ UNCHANGED handle
    ELSE \E k \in Task :
           /\ k = handle \/ (handle = NoOne /\ t[k].ph = "free" /\ \A j \in Task : j < k => t[j].ph # "free")
           /\ task' = [t EXCEPT ![k] = [ph |-> "wait", host |-> host, conn |-> NoOne]]
           /\ handle' = k
Spawn(host) == SpawnFrom(task, host)

\* cancel_peer_link_client: the handle goes at once, the task unwinds later.
CancelClient ==
    /\ handle' = NoOne
    /\ task' = IF handle = NoOne THEN task
               ELSE IF Alive(handle) THEN [task EXCEPT ![handle].ph = "dying"]
               ELSE [task EXCEPT ![handle] = FreeTask]

\* The client's end of a connection is gone; the record is free once the server's is too.
Hangup(c) == IF conn[c].sv = "none" THEN FreeConn ELSE [conn[c] EXCEPT !.cl = FALSE]

\* _run_one_session connects and sends its handshake, if its host is where the receiver is.
TaskDials(k) ==
    /\ task[k].ph = "wait" /\ task[k].host = addr
    /\ \E c \in Conn :
         /\ conn[c] = FreeConn
         /\ \A d \in Conn : d < c => conn[d] # FreeConn
         /\ conn' = [conn EXCEPT ![c].cl = TRUE]
         /\ task' = [task EXCEPT ![k].ph = "dial", ![k].conn = c]
    /\ UNCHANGED <<rcvVars, offVars, handle, left>>

\* The receiver's answer: ok opens the session and fires OPENED, a pending pairing is retried, no approved
\* peer orphans the client; the last two fire CLOSED.
TaskReads(k) ==
    /\ task[k].ph = "dial"
    /\ LET c == task[k].conn  r == conn[c].reply IN
         /\ ~conn[c].lost /\ r # "none"
         /\ openLink' = (r = "ok")
         /\ task' = [task EXCEPT ![k] = CASE r = "ok"      -> [@ EXCEPT !.ph = "open"]
                                          [] r = "pending" -> [@ EXCEPT !.ph = "wait", !.conn = NoOne]
                                          [] r = "revoked" -> [@ EXCEPT !.ph = "done", !.conn = NoOne]]
         /\ conn' = IF r = "ok" THEN conn ELSE [conn EXCEPT ![c] = Hangup(c)]
    /\ UNCHANGED <<rcvVars, row, rowDisk, poll, req, probing, rebind, handle, left>>

\* CLOSED, fired when a client's session or attempt is over: the pin leaves open_peer_links.
BugClosed == UNCHANGED openLink
Closed == openLink' = FALSE

\* A session or a dial ends under the client: a terminate frame, a closed socket, a heartbeat or read
\* timeout.  CLOSED is fired; superseded orphans the client, everything else reconnects.
TaskLoses(k) ==
    /\ task[k].ph \in {"dial", "open"}
    /\ LET c == task[k].conn
           superseded == task[k].ph = "open" /\ conn[c].told /\ ~conn[c].lost IN
         /\ conn[c].lost \/ (task[k].ph = "open" /\ (conn[c].told \/ conn[c].sv = "none"))
         /\ task' = [task EXCEPT ![k].ph = IF superseded THEN "superseded" ELSE "wait", ![k].conn = NoOne]
         /\ conn' = [conn EXCEPT ![c] = Hangup(c)]
         /\ Closed
    /\ UNCHANGED <<rcvVars, row, rowDisk, poll, req, probing, rebind, handle, left>>

\* A cancelled task unwinds: it closes its socket, which waits for what it had sent to be read, and fires CLOSED.
TaskDies(k) ==
    /\ task[k].ph = "dying"
    /\ LET c == task[k].conn IN
         IF c = NoOne THEN UNCHANGED conn
         ELSE /\ conn[c].lost \/ conn[c].reply # "none" \/ conn[c].sv # "none"
              /\ conn' = [conn EXCEPT ![c] = Hangup(c)]
    /\ task' = [task EXCEPT ![k] = IF \E w \in Cause : rebind[w].victim = k
                                     THEN [FreeTask EXCEPT !.ph = "gone"] ELSE FreeTask]
    /\ Closed
    /\ UNCHANGED <<rcvVars, row, rowDisk, poll, req, probing, rebind, handle, left>>

-----------------------------------------------------------------------------
(* The receiver's end of the sessions. *)

\* What register_peer_link_session does after the slot is taken: the dial back is called off, the row learns
\* the port.
Registered ==
    /\ dial' = "none"
    /\ peer' = IF peer = "none" THEN peer ELSE "port"

\* The handshake's last message: the row decides, the answer is written to a fresh socket (which does not
\* suspend), an accepted session takes the slot and then waits for the one it replaces to be closed.
ServerAnswers(c) ==
    /\ conn[c].cl /\ ~conn[c].lost /\ conn[c].reply = "none" /\ conn[c].sv = "none"
    /\ LET r == IF pending THEN "pending" ELSE IF peer = "none" THEN "revoked" ELSE "ok"
           old == IF slot = NoOne THEN {} ELSE {e \in {slot} : ~conn[e].told} IN
         /\ conn' = [d \in Conn |->
                CASE d = c -> [conn[d] EXCEPT !.reply = r,
                                 !.sv = IF r # "ok" THEN "none" ELSE IF old = {} THEN "serving" ELSE "superseding"]
                  [] d # c /\ r = "ok" /\ d \in old -> [conn[d] EXCEPT !.told = TRUE]
                  [] OTHER -> conn[d]]
         /\ IF r = "ok" THEN slot' = c ELSE UNCHANGED slot
         /\ IF r = "ok" /\ old = {} THEN Registered ELSE UNCHANGED <<dial, peer>>
    /\ UNCHANGED <<addr, window, pending, peerDisk, offVars, linkVars, left>>

\* The replaced session's close has been waited for.
ServerSettles(c) ==
    /\ conn[c].sv = "superseding"
    /\ conn' = [conn EXCEPT ![c].sv = "serving"]
    /\ Registered
    /\ UNCHANGED <<addr, window, pending, peerDisk, slot, offVars, linkVars, left>>

\* Nothing was heard for too long: the heartbeat terminates the session.
ServerTimesOut(c) ==
    /\ conn[c].sv = "serving" /\ conn[c].lost /\ ~conn[c].told
    /\ conn' = [conn EXCEPT ![c].told = TRUE]
    /\ UNCHANGED <<rcvVars, offVars, linkVars, left>>

\* unregister_peer_link_session, from the finally of the receive loop: only the slot's own session frees it.
BugUnregistered(c) == slot' = NoOne
Unregistered(c) == slot' = IF slot = c THEN NoOne ELSE slot

ServerEnds(c) ==
    /\ conn[c].sv = "serving" /\ (conn[c].told \/ (~conn[c].cl /\ ~conn[c].lost))
    /\ conn' = [conn EXCEPT ![c] = IF conn[c].cl THEN [@ EXCEPT !.sv = "none"] ELSE FreeConn]
    /\ Unregistered(c)
    /\ UNCHANGED <<addr, window, pending, peer, peerDisk, dial, offVars, linkVars, left>>

-----------------------------------------------------------------------------
(* Pairing. *)

\* Work on the link that has not come to its end; an operator command, a second endpoint change and the end of
\* the probe slot's thirty seconds overlap it only if Overlap says so.
Rebinding == \E w \in Cause : rebind[w].st # "none"
Busy == req.st # "none" \/ poll = "spawn" \/ Rebinding \/ \E k \in Task : task[k].ph = "dying"
Operator == Overlap \/ ~Busy

RequestPair ==
    /\ Operator /\ req.st = "none" /\ Spend("ask")
    /\ req' = [st |-> "sent", host |-> addr]
    /\ UNCHANGED <<rcvVars, conn, row, rowDisk, poll, openLink, probing, rebind, linkVars>>

\* record_pair_request: an approved row answers at once, else an open window takes the request.
RecordPairRequest ==
    /\ req.st = "sent" /\ req.host = addr
    /\ LET r == IF peer # "none" THEN "approved" ELSE IF window # {} THEN "pending" ELSE "none" IN
         /\ req' = IF r = "none" THEN NoReq ELSE [req EXCEPT !.st = r]
         /\ pending' = (pending \/ r = "pending")
    /\ UNCHANGED <<addr, window, peer, peerDisk, slot, dial, conn, row, rowDisk, poll, openLink, probing, rebind,
                   linkVars, left>>

\* The round trip fails, perhaps after the receiver has recorded it.
RequestFails ==
    /\ \/ req.st = "sent" /\ req.host # addr /\ UNCHANGED left
       \/ req.st \in {"approved", "pending"} /\ Spend("drop")
    /\ req' = NoReq
    /\ UNCHANGED <<rcvVars, conn, row, rowDisk, poll, openLink, probing, rebind, linkVars>>

\* The rest of request_pair: a new row replaces any other, its listener too; an approved one goes on to
\* converge the listener, which suspends, before the client is spawned.
RequestCommits ==
    /\ req.st \in {"approved", "pending"}
    /\ row' = [st |-> req.st, host |-> req.host, gen |-> row.gen + 1]
    /\ poll' = IF req.st = "pending" THEN "ask" ELSE "none"
    /\ req' = IF req.st = "approved" THEN [req EXCEPT !.st = "spawn"] ELSE NoReq
    /\ UNCHANGED <<rcvVars, conn, rowDisk, openLink, probing, rebind, linkVars, left>>

RequestSpawns ==
    /\ req.st = "spawn" /\ req' = NoReq
    /\ Spawn(row.host)
    /\ UNCHANGED <<rcvVars, conn, row, rowDisk, poll, openLink, probing, rebind, left>>

\* The listener and the client are cancelled even when there is no row any more.
Unpair ==
    /\ Operator /\ Spend("ask")
    /\ poll' = "none" /\ CancelClient
    /\ row' = [row EXCEPT !.st = "none"]
    /\ openLink' = (openLink /\ row.st = "none")
    /\ UNCHANGED <<rcvVars, conn, rowDisk, req, probing, rebind>>

\* The pair-status long poll: the answer is at hand unless the row is pending, then it is parked until a flip.
StatusAnswer == IF pending THEN "pending" ELSE IF peer = "none" THEN "revoked" ELSE "approved"

PollAsks ==
    /\ poll = "ask" /\ row.host = addr
    /\ poll' = IF StatusAnswer = "pending" THEN "parked" ELSE StatusAnswer
    /\ UNCHANGED <<rcvVars, conn, row, rowDisk, req, openLink, probing, rebind, linkVars, left>>

PollWakes ==
    /\ poll = "flipped"
    /\ poll' = IF StatusAnswer = "pending" THEN "ask" ELSE StatusAnswer
    /\ UNCHANGED <<rcvVars, conn, row, rowDisk, req, openLink, probing, rebind, linkVars, left>>

\* apply_pair_status_result.
PollApplies ==
    /\ \/ poll = "approved" /\ poll' = "spawn" /\ row' = [row EXCEPT !.st = "approved"]
       \/ poll = "revoked"  /\ poll' = "none"  /\ row' = [row EXCEPT !.st = "none"]
    /\ UNCHANGED <<rcvVars, conn, rowDisk, req, openLink, probing, rebind, linkVars, left>>

PollSpawns ==
    /\ poll = "spawn" /\ poll' = "none"
    /\ Spawn(row.host)
    /\ UNCHANGED <<rcvVars, conn, row, rowDisk, req, openLink, probing, rebind, left>>

\* fire_pair_status_changed wakes the parked poll.
BugFlip == UNCHANGED poll
Flip == poll' = IF poll = "parked" THEN "flipped" ELSE poll
ClearPending == IF pending THEN pending' = FALSE /\ Flip ELSE UNCHANGED <<pending, poll>>

OpenWindow(t) ==
    /\ Spend("admin") /\ window' = window \cup {t}
    /\ UNCHANGED <<addr, pending, peer, peerDisk, slot, dial, conn, offVars, linkVars>>

\* A tab closes the window, or the last deadline passes; with nobody left the inbox is cleared.
CloseWindow(t) ==
    /\ t \in window /\ window' = window \ {t}
    /\ IF window' = {} THEN ClearPending ELSE UNCHANGED <<pending, poll>>
    /\ UNCHANGED <<addr, peer, peerDisk, slot, dial, conn, row, rowDisk, req, openLink, probing, rebind, linkVars, left>>

WindowDeadline ==
    /\ window # {} /\ window' = {}
    /\ ClearPending
    /\ UNCHANGED <<addr, peer, peerDisk, slot, dial, conn, row, rowDisk, req, openLink, probing, rebind, linkVars, left>>

ApprovePeer ==
    /\ pending /\ Spend("admin")
    /\ pending' = FALSE /\ peer' = "plain" /\ Flip
    /\ UNCHANGED <<addr, window, peerDisk, slot, dial, conn, row, rowDisk, req, openLink, probing, rebind, linkVars>>

\* remove_peer: a live session stays.
RemovePeer ==
    /\ pending \/ peer # "none"
    /\ Spend("admin") /\ Flip
    /\ IF pending THEN pending' = FALSE /\ UNCHANGED <<peer, dial>>
       ELSE peer' = "none" /\ dial' = "none" /\ UNCHANGED pending
    /\ UNCHANGED <<addr, window, peerDisk, slot, conn, row, rowDisk, req, openLink, probing, rebind, linkVars>>

-----------------------------------------------------------------------------
(* Finding each other again: mDNS, the operator's edit, the receiver's connect-back. *)

\* Quiet and cooldown periods are time passing: the sweep dials when the rest of its conditions hold.
SweepConnectBack ==
    /\ peer = "port" /\ slot = NoOne /\ dial = "none" /\ dial' = "out"
    /\ UNCHANGED <<addr, window, pending, peer, peerDisk, slot, conn, offVars, linkVars, left>>

Probe(w, host) == Operator /\ rebind' = [rebind EXCEPT ![w] = [st |-> "probe", host |-> host, gen |-> row.gen, victim |-> NoOne]]

\* handle_connect_back: refused without an approved row, with a session open, or with the probe slot taken.
HandleConnectBack ==
    /\ dial = "out" /\ rebind["back"].st = "none" /\ Operator
    /\ IF row.st # "approved" \/ openLink \/ probing
       THEN dial' = "none" /\ UNCHANGED <<probing, rebind>>
       ELSE dial' = "held" /\ probing' = TRUE /\ Probe("back", addr)
    /\ UNCHANGED <<addr, window, pending, peer, peerDisk, slot, conn, row, rowDisk, poll, req, openLink, linkVars, left>>

\* The dial fails or times out; the offloader's side of it goes on.
DialFails ==
    /\ dial # "none" /\ dial' = "none" /\ Spend("drop")
    /\ UNCHANGED <<addr, window, pending, peer, peerDisk, slot, conn, offVars, linkVars>>

\* maybe_schedule_rebind_probe.
MdnsSeen ==
    /\ row.st = "approved" /\ row.host # addr /\ ~probing /\ rebind["mdns"].st = "none"
    /\ probing' = TRUE /\ Probe("mdns", addr)
    /\ UNCHANGED <<rcvVars, conn, row, rowDisk, poll, req, openLink, linkVars, left>>

EditEndpoint(host) ==
    /\ row.st = "approved" /\ host # row.host /\ rebind["edit"].st = "none" /\ Spend("ask")
    /\ Probe("edit", host)
    /\ UNCHANGED <<rcvVars, conn, row, rowDisk, poll, req, openLink, probing, linkVars>>

ReplyTo(w) == dial' = IF w = "back" /\ dial = "held" THEN "none" ELSE dial

\* commit_guard of the connect-back: the forward client may have opened a session during the probe.
BugCommitGuard(w) == TRUE
CommitGuard(w) == w = "back" => ~openLink

\* What the probe must find when it is back: the receiver there, and the same row, still approved.
MayCommit(w) ==
    /\ rebind[w].host = addr
    /\ row.st = "approved" /\ row.gen = rebind[w].gen
    /\ CommitGuard(w)

ProbeRefused(w) ==
    /\ rebind[w].st = "probe" /\ ~MayCommit(w)
    /\ rebind' = [rebind EXCEPT ![w] = NoRebind] /\ ReplyTo(w)
    /\ UNCHANGED <<addr, window, pending, peer, peerDisk, slot, conn, row, rowDisk, poll, req, openLink, probing, linkVars, left>>

\* commit_endpoint_rebind, up to the wait for the old client's teardown when it still runs.
ProbeCommits(w) ==
    /\ rebind[w].st = "probe" /\ MayCommit(w)
    /\ row' = [row EXCEPT !.host = rebind[w].host]
    /\ IF Alive(handle)
       THEN /\ CancelClient
            /\ rebind' = [rebind EXCEPT ![w].st = "teardown", ![w].victim = handle]
            /\ UNCHANGED <<dial, probing>>
       ELSE /\ Spawn(rebind[w].host)
            /\ rebind' = [rebind EXCEPT ![w] = NoRebind] /\ probing' = FALSE /\ ReplyTo(w)
    /\ UNCHANGED <<addr, window, pending, peer, peerDisk, slot, conn, rowDisk, poll, req, openLink, left>>

\* The teardown is over: the client is spawned for the pairing the probe was about.
BugUnwound(k) == task[k].ph \in {"dying", "gone"}
Unwound(k) == task[k].ph = "gone"

Respawn(w) ==
    /\ rebind[w].st = "teardown" /\ Unwound(rebind[w].victim)
    /\ SpawnFrom([task EXCEPT ![rebind[w].victim] = IF @.ph = "gone" THEN FreeTask ELSE @], rebind[w].host)
    /\ rebind' = [rebind EXCEPT ![w] = NoRebind] /\ probing' = FALSE /\ ReplyTo(w)
    /\ UNCHANGED <<addr, window, pending, peer, peerDisk, slot, conn, row, rowDisk, poll, req, openLink, left>>

ProbeSlotExpires ==
    /\ probing /\ probing' = FALSE /\ (Overlap \/ ~Rebinding)
    /\ UNCHANGED <<rcvVars, conn, row, rowDisk, poll, req, openLink, rebind, linkVars, left>>

-----------------------------------------------------------------------------
(* The two stores, written behind a debounce, and what the world does. *)

SavePeers ==
    /\ peerDisk # peer /\ peerDisk' = peer
    /\ UNCHANGED <<addr, window, pending, peer, slot, dial, conn, offVars, linkVars, left>>

ApprovedRow == IF row.st = "approved" THEN row ELSE [row EXCEPT !.st = "none"]
SavePairings ==
    /\ rowDisk # ApprovedRow /\ rowDisk' = ApprovedRow
    /\ UNCHANGED <<rcvVars, conn, row, poll, req, openLink, probing, rebind, linkVars, left>>

Lost(d) == IF d.cl \/ d.sv # "none" THEN [d EXCEPT !.lost = TRUE] ELSE d
Unparked == IF poll \in {"parked", "flipped"} THEN "ask" ELSE poll

DropConnection(c) ==
    /\ conn[c] # Lost(conn[c]) /\ Spend("drop")
    /\ conn' = [conn EXCEPT ![c] = Lost(@)]
    /\ UNCHANGED <<rcvVars, offVars, linkVars>>

ReceiverMoves ==
    /\ Spend("move") /\ addr' \in Addr \ {addr}
    /\ conn' = [c \in Conn |-> Lost(conn[c])] /\ poll' = Unparked
    /\ UNCHANGED <<window, pending, peer, peerDisk, slot, dial, row, rowDisk, req, openLink, probing, rebind, linkVars>>

ReceiverRestarts ==
    /\ Spend("crash")
    /\ window' = {} /\ pending' = FALSE /\ peer' = peerDisk /\ slot' = NoOne /\ dial' = "none"
    /\ conn' = [c \in Conn |-> IF conn[c].cl THEN [Lost(conn[c]) EXCEPT !.sv = "none"] ELSE FreeConn]
    /\ poll' = Unparked
    /\ UNCHANGED <<addr, peerDisk, row, rowDisk, req, openLink, probing, rebind, linkVars>>

\* The offloader starts again from its store and spawns the client of an approved row; a connect-back it held is cut.
OffloaderRestarts ==
    /\ Spend("crash")
    /\ row' = rowDisk /\ poll' = "none" /\ req' = NoReq
    /\ openLink' = FALSE /\ probing' = FALSE /\ rebind' = [w \in Cause |-> NoRebind]
    /\ dial' = IF dial = "held" THEN "none" ELSE dial
    /\ conn' = [c \in Conn |-> IF conn[c].sv = "none" THEN FreeConn ELSE [conn[c] EXCEPT !.cl = FALSE]]
    /\ \E k \in Task :
         /\ \A j \in Task : k <= j
         /\ IF rowDisk.st = "approved"
            THEN /\ task' = [j \in Task |-> IF j = k THEN [ph |-> "wait", host |-> rowDisk.host, conn |-> NoOne]
                                            ELSE FreeTask]
                 /\ handle' = k
            ELSE task' = [j \in Task |-> FreeTask] /\ handle' = NoOne
    /\ UNCHANGED <<addr, window, pending, peer, peerDisk, slot, rowDisk>>

-----------------------------------------------------------------------------

\* The two programs' own steps: each loop runs on, each await comes back, each debounce and timer ends.
ClientStep == \E k \in Task : TaskDials(k) \/ TaskReads(k) \/ TaskLoses(k) \/ TaskDies(k)
ServerStep == \E c \in Conn : ServerAnswers(c) \/ ServerSettles(c) \/ ServerTimesOut(c) \/ ServerEnds(c)
RequestStep == RecordPairRequest \/ RequestFails \/ RequestCommits \/ RequestSpawns
PollStep == PollAsks \/ PollWakes \/ PollApplies \/ PollSpawns
RebindStep == \E w \in Cause : ProbeRefused(w) \/ ProbeCommits(w) \/ Respawn(w)
TimerStep == SweepConnectBack \/ HandleConnectBack \/ ProbeSlotExpires \/ SavePeers \/ SavePairings \/ WindowDeadline
OperatorStep == \/ RequestPair \/ Unpair \/ ApprovePeer \/ RemovePeer \/ \E h \in Addr : EditEndpoint(h)
                \/ \E t \in Tab : OpenWindow(t) \/ CloseWindow(t)
WorldStep == \/ DialFails \/ MdnsSeen \/ ReceiverMoves \/ ReceiverRestarts \/ OffloaderRestarts
             \/ \E c \in Conn : DropConnection(c)

PeeringNext == \/ ClientStep \/ ServerStep \/ RequestStep \/ PollStep \/ RebindStep \/ TimerStep
               \/ OperatorStep \/ WorldStep

\* Every task of either event loop that can run does; nothing is assumed of operators, of the network, or of mDNS.
PeeringFairness ==
    /\ \A k \in Task : WF_peerVars(TaskDials(k) \/ TaskReads(k) \/ TaskLoses(k) \/ TaskDies(k))
    /\ \A c \in Conn : WF_peerVars(ServerAnswers(c) \/ ServerSettles(c) \/ ServerTimesOut(c) \/ ServerEnds(c))
    /\ \A w \in Cause : WF_peerVars(ProbeRefused(w) \/ ProbeCommits(w) \/ Respawn(w))
    /\ WF_peerVars(RequestStep) /\ WF_peerVars(PollStep)
    /\ WF_peerVars(SweepConnectBack) /\ WF_peerVars(HandleConnectBack) /\ WF_peerVars(ProbeSlotExpires)
    /\ WF_peerVars(WindowDeadline)

PeeringSpec == PeeringInit /\ [][PeeringNext]_peerVars /\ PeeringFairness

-----------------------------------------------------------------------------
(* What must hold. *)

PeeringTypeOK ==
    /\ addr \in Addr /\ window \subseteq Tab /\ pending \in BOOLEAN
    /\ {peer, peerDisk} \subseteq {"none", "plain", "port"}
    /\ slot \in Conn \cup {NoOne} /\ dial \in {"none", "out", "held"}
    /\ conn \in [Conn -> [cl : BOOLEAN, sv : {"none", "superseding", "serving"}, told : BOOLEAN,
                          reply : {"none", "ok", "pending", "revoked"}, lost : BOOLEAN]]
    /\ row.st \in {"none", "pending", "approved"} /\ row.host \in Addr
    /\ poll \in {"none", "ask", "parked", "flipped", "approved", "revoked", "spawn"}
    /\ handle \in Task \cup {NoOne} /\ openLink \in BOOLEAN /\ probing \in BOOLEAN
    /\ \A k \in Task : task[k].ph \in {"free", "wait", "dial", "open", "dying", "gone", "done", "superseded"}

\* Sessions come and go on one slot per offloader, and the ones replaced end late: the slot names the one live
\* session there is, never an ended one, and no live session is outside it (unreachable for the job fan-out).
SlotIsTheLiveSession ==
    /\ slot # NoOne => conn[slot].sv # "none"
    /\ \A c \in Conn : conn[c].sv # "none" /\ ~conn[c].told => slot = c

\* Awaiting the old client's teardown before a new one connects keeps a late registration of the old from
\* superseding the new, which would orphan it: an offloader never supersedes itself.
NeverSupersedesItself == \A k \in Task : task[k].ph # "superseded"

\* open_peer_links is kept by events of a client and by unpair, and decides routing and connect-backs: a client
\* with a session is in it, and it holds nothing once no client has or is closing one.
OpenLinkIsTrue ==
    /\ (\E k \in Task : task[k].ph = "open") => openLink
    /\ openLink => \E k \in Task : task[k].ph \in {"open", "dying"}

\* A connect-back that probed while no session was open does not tear down the one opened meanwhile.
CommitSparesSession ==
    [][\A k \in Task : task[k].ph = "open" /\ task'[k].ph = "dying" =>
           ~(rebind["back"].st = "probe" /\ rebind'["back"].st = "teardown")]_peerVars

\* A pending pairing is settled one way or the other: approved, refused, or its window closed, whatever the
\* offloader was doing at the moment of the flip (as long as the receiver stays where the listener asks).
PairingSettles == []<>~(row.st = "pending" /\ row.host = addr)

\* Two paired sides whose client is not orphaned find each other again after every drop, restart and move, with
\* no help from mDNS: in the end a session is open at both ends.
Linked == \E k \in Task : /\ task[k].ph = "open" /\ handle = k
                          /\ task[k].conn = slot /\ conn[slot].sv = "serving"
LinkHeals == <>[](row.st = "approved" /\ peer = "port" /\ Alive(handle)) => []<>Linked

\* A client task runs for a pairing (its one instance per approved pairing): none is left without its row.
ClientHasPairing == \A k \in Task : task[k].ph \in {"wait", "dial", "open"} => row.st # "none"
=============================================================================
