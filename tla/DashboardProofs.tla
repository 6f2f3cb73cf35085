--------------------------- MODULE DashboardProofs ---------------------------
(***************************************************************************)
(* Three parts of the dashboard, for every value of their constants.  The  *)
(* link: the receiver's slot names the one live session of the offloader,  *)
(* however operator commands overlap; and, when they do not, the offloader *)
(* has one client, knows whether its link is open, and never tears down a  *)
(* session that opened while it probed.  The monitor: mDNS's claim on a    *)
(* device ends with its withdrawal, announces outweigh what ping and MQTT  *)
(* find, and the identity gate never dips while a source takes over.  The  *)
(* streams: the follower of a job is told its lines and its result, and a  *)
(* client that watches every job knows where it is, or is cut off.  Last,  *)
(* the types of all three, and of the instance that combines them.         *)
(***************************************************************************)
EXTENDS MCDashboard, TLAPS, SequenceTheorems

ConnRecord == [cl : BOOLEAN, sv : {"none", "superseding", "serving"}, told : BOOLEAN,
               reply : {"none", "ok", "pending", "revoked"}, lost : BOOLEAN]

SlotInv ==
    /\ conn \in [Conn -> ConnRecord]
    /\ slot \in Conn \cup {NoOne}
    /\ SlotIsTheLiveSession

USE PeeringAssumption

\* What leaves the slot alone keeps the invariant if no connection changes its session, or one whose
\* session is over is forgotten.
LEMMA SlotKept ==
    ASSUME SlotInv, slot' = slot, conn' \in [Conn -> ConnRecord],
           \A c \in Conn : /\ conn'[c].sv = "none" <=> conn[c].sv = "none"
                           /\ conn[c].told => conn'[c].told \/ conn'[c].sv = "none"
    PROVE  SlotInv'
BY DEF SlotInv, SlotIsTheLiveSession

LEMMA FreeConnType == FreeConn \in ConnRecord
BY DEF FreeConn, ConnRecord

\* A client that hangs up leaves the session to the server.
LEMMA HangupKeeps ==
    ASSUME SlotInv, slot' = slot, NEW c, conn' = [conn EXCEPT ![c] = Hangup(c)]
    PROVE  SlotInv'
<1>1. conn' \in [Conn -> ConnRecord]
  <2>1. \A d \in Conn : [conn[d] EXCEPT !.cl = FALSE] \in ConnRecord
    BY DEF SlotInv, ConnRecord
  <2>2. \A d \in Conn : Hangup(d) \in ConnRecord
    BY <2>1, FreeConnType DEF Hangup
  <2>3. QED
    BY <2>2 DEF SlotInv
<1>2. \A d \in Conn : /\ conn'[d].sv = "none" <=> conn[d].sv = "none"
                      /\ conn[d].told => conn'[d].told \/ conn'[d].sv = "none"
  BY DEF SlotInv, Hangup, FreeConn, ConnRecord
<1>3. QED
  BY <1>1, <1>2, SlotKept

\* So does a network that loses connections.
LEMMA LostType ==
    ASSUME NEW d \in ConnRecord
    PROVE  /\ Lost(d) \in ConnRecord
           /\ Lost(d).sv = d.sv /\ Lost(d).told = d.told /\ Lost(d).cl = d.cl
BY DEF Lost, ConnRecord

LEMMA SlotInit == PeeringInit => SlotInv
BY FreeConnType DEF PeeringInit, SlotInv, SlotIsTheLiveSession, FreeConn

LEMMA ClientKeepsSlot ==
    ASSUME SlotInv, NEW k \in Task, TaskDials(k) \/ TaskReads(k) \/ TaskLoses(k) \/ TaskDies(k)
    PROVE  SlotInv'
<1>1. CASE TaskDials(k)
  <2>1. PICK c \in Conn : conn' = [conn EXCEPT ![c].cl = TRUE]
    BY <1>1 DEF TaskDials
  <2>2. conn' \in [Conn -> ConnRecord]
    BY <2>1 DEF SlotInv, ConnRecord
  <2>3. \A d \in Conn : conn'[d].sv = conn[d].sv /\ conn'[d].told = conn[d].told
    BY <2>1 DEF SlotInv, ConnRecord
  <2>4. slot' = slot
    BY <1>1 DEF TaskDials, rcvVars
  <2>5. QED
    BY <2>2, <2>3, <2>4, SlotKept
<1>2. CASE TaskReads(k)
  <2>1. conn' = conn \/ conn' = [conn EXCEPT ![task[k].conn] = Hangup(task[k].conn)]
    BY <1>2 DEF TaskReads
  <2>2. slot' = slot
    BY <1>2 DEF TaskReads, rcvVars
  <2>3. CASE conn' = conn
    BY <2>2, <2>3 DEF SlotInv, SlotIsTheLiveSession
  <2>4. QED
    BY <2>1, <2>2, <2>3, HangupKeeps
<1>3. CASE TaskLoses(k)
  <2>1. slot' = slot /\ conn' = [conn EXCEPT ![task[k].conn] = Hangup(task[k].conn)]
    BY <1>3 DEF TaskLoses, rcvVars
  <2>2. QED
    BY <2>1, HangupKeeps
<1>4. CASE TaskDies(k)
  <2>1. slot' = slot /\ (conn' = conn \/ conn' = [conn EXCEPT ![task[k].conn] = Hangup(task[k].conn)])
    BY <1>4 DEF TaskDies, rcvVars
  <2>2. CASE conn' = conn
    BY <2>1, <2>2 DEF SlotInv, SlotIsTheLiveSession
  <2>3. QED
    BY <2>1, <2>2, HangupKeeps
<1>5. QED
  BY <1>1, <1>2, <1>3, <1>4

\* A newcomer takes the slot and tells the session it finds there, which is the only one not told yet.
LEMMA AnswerKeepsSlot ==
    ASSUME SlotInv, NEW c \in Conn, ServerAnswers(c)
    PROVE  SlotInv'
<1> DEFINE r == IF pending THEN "pending" ELSE IF peer = "none" THEN "revoked" ELSE "ok"
           old == IF slot = NoOne THEN {} ELSE {e \in {slot} : ~conn[e].told}
<1>1. conn' = [d \in Conn |->
                CASE d = c -> [conn[d] EXCEPT !.reply = r,
                                 !.sv = IF r # "ok" THEN "none" ELSE IF old = {} THEN "serving" ELSE "superseding"]
                  [] d # c /\ r = "ok" /\ d \in old -> [conn[d] EXCEPT !.told = TRUE]
                  [] OTHER -> conn[d]]
  BY DEF ServerAnswers
<1>2. slot' = IF r = "ok" THEN c ELSE slot
  BY DEF ServerAnswers
<1>3. conn[c].sv = "none"
  BY DEF ServerAnswers
<1>4. conn' \in [Conn -> ConnRecord]
  <2>1. \A d \in Conn : conn[d] \in ConnRecord
    BY DEF SlotInv
  <2>2. r \in {"ok", "pending", "revoked"}
    OBVIOUS
  <2>3. conn'[c] = [conn[c] EXCEPT !.reply = r,
                      !.sv = IF r # "ok" THEN "none" ELSE IF old = {} THEN "serving" ELSE "superseding"]
    BY <1>1
  <2>4. conn'[c] \in ConnRecord
    BY <2>1, <2>2, <2>3 DEF ConnRecord
  <2>5. ASSUME NEW d \in Conn, d # c
        PROVE  conn'[d] \in ConnRecord
    <3>1. conn'[d] = conn[d] \/ conn'[d] = [conn[d] EXCEPT !.told = TRUE]
      BY <1>1, <2>5
    <3>2. [conn[d] EXCEPT !.told = TRUE] \in ConnRecord
      BY <2>1 DEF ConnRecord
    <3>3. QED
      BY <2>1, <3>1, <3>2
  <2>6. conn' = [d \in Conn |-> conn'[d]]
    BY <1>1
  <2>7. QED
    BY <2>4, <2>5, <2>6
<1>5. CASE r # "ok"
  <2>1. \A d \in Conn : conn'[d].sv = conn[d].sv /\ conn'[d].told = conn[d].told
    BY <1>1, <1>3, <1>5 DEF SlotInv, ConnRecord
  <2>2. QED
    BY <1>2, <1>4, <1>5, <2>1, SlotKept
<1>6. CASE r = "ok"
  <2>1. conn'[c].sv # "none"
    BY <1>1, <1>6 DEF SlotInv, ConnRecord
  <2>2. ASSUME NEW d \in Conn, d # c, conn'[d].sv # "none", ~conn'[d].told
        PROVE  FALSE
    <3>1. conn[d].sv # "none" /\ ~conn[d].told
      BY <1>1, <2>2 DEF SlotInv, ConnRecord
    <3>2. slot = d
      BY <3>1 DEF SlotInv, SlotIsTheLiveSession
    <3>3. d \in old
      BY <3>1, <3>2
    <3>4. conn'[d].told
      BY <1>1, <1>6, <2>2, <3>3 DEF SlotInv, ConnRecord
    <3>5. QED
      BY <2>2, <3>4
  <2>3. QED
    BY <1>2, <1>4, <1>6, <2>1, <2>2 DEF SlotInv, SlotIsTheLiveSession
<1>7. QED
  BY <1>5, <1>6

LEMMA ServerKeepsSlot ==
    ASSUME SlotInv, NEW c \in Conn,
           ServerAnswers(c) \/ ServerSettles(c) \/ ServerTimesOut(c) \/ ServerEnds(c)
    PROVE  SlotInv'
<1>1. CASE ServerSettles(c)
  <2>1. conn' = [conn EXCEPT ![c].sv = "serving"] /\ conn[c].sv = "superseding" /\ slot' = slot
    BY <1>1 DEF ServerSettles
  <2>2. conn' \in [Conn -> ConnRecord]
    BY <2>1 DEF SlotInv, ConnRecord
  <2>3. \A d \in Conn : /\ conn'[d].sv = "none" <=> conn[d].sv = "none"
                        /\ conn'[d].told = conn[d].told
    BY <2>1 DEF SlotInv, ConnRecord
  <2>4. QED
    BY <2>1, <2>2, <2>3, SlotKept
<1>2. CASE ServerTimesOut(c)
  <2>1. conn' = [conn EXCEPT ![c].told = TRUE] /\ slot' = slot
    BY <1>2 DEF ServerTimesOut, rcvVars
  <2>2. conn' \in [Conn -> ConnRecord]
    BY <2>1 DEF SlotInv, ConnRecord
  <2>3. \A d \in Conn : conn'[d].sv = conn[d].sv /\ (conn[d].told => conn'[d].told)
    BY <2>1 DEF SlotInv, ConnRecord
  <2>4. QED
    BY <2>1, <2>2, <2>3, SlotKept
<1>3. CASE ServerEnds(c)
  <2>1. conn' = [conn EXCEPT ![c] = IF conn[c].cl THEN [conn[c] EXCEPT !.sv = "none"] ELSE FreeConn]
    BY <1>3 DEF ServerEnds
  <2>2. slot' = IF slot = c THEN NoOne ELSE slot
    BY <1>3 DEF ServerEnds, Unregistered
  <2>3. conn' \in [Conn -> ConnRecord]
    <3>1. conn \in [Conn -> ConnRecord] /\ [conn[c] EXCEPT !.sv = "none"] \in ConnRecord
      BY DEF SlotInv, ConnRecord
    <3>2. QED
      BY <2>1, <3>1, FreeConnType
  <2>4. conn'[c].sv = "none" /\ \A d \in Conn \ {c} : conn'[d] = conn[d]
    BY <2>1 DEF SlotInv, ConnRecord, FreeConn
  <2>5. QED
    BY <2>2, <2>3, <2>4 DEF SlotInv, SlotIsTheLiveSession
<1>4. QED
  BY <1>1, <1>2, <1>3, AnswerKeepsSlot

\* A restart of the receiver ends every session and empties the slot; one of the offloader ends its
\* clients' side only.
LEMMA WorldKeepsSlot ==
    ASSUME SlotInv, WorldStep
    PROVE  SlotInv'
<1>1. CASE DialFails \/ MdnsSeen
  <2>1. conn' = conn /\ slot' = slot
    BY <1>1 DEF DialFails, MdnsSeen, rcvVars
  <2>2. QED
    BY <2>1 DEF SlotInv, SlotIsTheLiveSession
<1>2. CASE ReceiverMoves
  <2>1. slot' = slot /\ conn' = [c \in Conn |-> Lost(conn[c])]
    BY <1>2 DEF ReceiverMoves
  <2>2. conn' \in [Conn -> ConnRecord]
    BY <2>1, LostType DEF SlotInv
  <2>3. \A d \in Conn : conn'[d].sv = conn[d].sv /\ conn'[d].told = conn[d].told
    BY <2>1, LostType DEF SlotInv
  <2>4. QED
    BY <2>1, <2>2, <2>3, SlotKept
<1>3. CASE ReceiverRestarts
  <2>1. slot' = NoOne /\ conn' = [c \in Conn |-> IF conn[c].cl THEN [Lost(conn[c]) EXCEPT !.sv = "none"] ELSE FreeConn]
    BY <1>3 DEF ReceiverRestarts
  <2>2. \A c \in Conn : [Lost(conn[c]) EXCEPT !.sv = "none"] \in ConnRecord
    BY LostType DEF SlotInv, ConnRecord
  <2>3. conn' \in [Conn -> ConnRecord]
    BY <2>1, <2>2, FreeConnType
  <2>4. \A d \in Conn : [Lost(conn[d]) EXCEPT !.sv = "none"].sv = "none"
    BY LostType DEF SlotInv, ConnRecord
  <2>5. \A d \in Conn : conn'[d].sv = "none"
    BY <2>1, <2>4 DEF FreeConn
  <2>6. QED
    BY <2>1, <2>3, <2>5 DEF SlotInv, SlotIsTheLiveSession
<1>4. CASE OffloaderRestarts
  <2>1. slot' = slot /\ conn' = [c \in Conn |-> IF conn[c].sv = "none" THEN FreeConn ELSE [conn[c] EXCEPT !.cl = FALSE]]
    BY <1>4 DEF OffloaderRestarts
  <2>2. conn' \in [Conn -> ConnRecord]
    <3>1. \A c \in Conn : [conn[c] EXCEPT !.cl = FALSE] \in ConnRecord
      BY DEF SlotInv, ConnRecord
    <3>2. QED
      BY <2>1, <3>1, FreeConnType
  <2>3. \A d \in Conn : /\ conn'[d].sv = "none" <=> conn[d].sv = "none"
                        /\ conn[d].told => conn'[d].told \/ conn'[d].sv = "none"
    BY <2>1 DEF SlotInv, ConnRecord, FreeConn
  <2>4. QED
    BY <2>1, <2>2, <2>3, SlotKept
<1>5. ASSUME NEW c \in Conn, DropConnection(c)
      PROVE  SlotInv'
  <2>1. slot' = slot /\ conn' = [conn EXCEPT ![c] = Lost(conn[c])]
    BY <1>5 DEF DropConnection, rcvVars
  <2>2. conn' \in [Conn -> ConnRecord]
    BY <2>1, LostType DEF SlotInv
  <2>3. \A d \in Conn : conn'[d].sv = conn[d].sv /\ conn'[d].told = conn[d].told
    BY <2>1, LostType DEF SlotInv
  <2>4. QED
    BY <2>1, <2>2, <2>3, SlotKept
<1>6. QED
  BY <1>1, <1>2, <1>3, <1>4, <1>5 DEF WorldStep

\* Pairing, endpoint changes, timers and operators touch neither a session nor the slot.
LEMMA OthersKeepSlot ==
    ASSUME SlotInv, \/ RequestStep \/ PollStep \/ RebindStep \/ TimerStep \/ OperatorStep
                    \/ UNCHANGED peerVars
    PROVE  SlotInv'
<1>1. conn' = conn /\ slot' = slot
  <2>1. CASE RequestStep
    BY <2>1 DEF RequestStep, RecordPairRequest, RequestFails, RequestCommits, RequestSpawns, rcvVars
  <2>2. CASE PollStep
    BY <2>2 DEF PollStep, PollAsks, PollWakes, PollApplies, PollSpawns, rcvVars
  <2>3. CASE RebindStep
    BY <2>3 DEF RebindStep, ProbeRefused, ProbeCommits, Respawn
  <2>4. CASE TimerStep
    BY <2>4 DEF TimerStep, SweepConnectBack, HandleConnectBack, ProbeSlotExpires, SavePeers, SavePairings,
                WindowDeadline, rcvVars
  <2>5. CASE OperatorStep
    BY <2>5 DEF OperatorStep, RequestPair, Unpair, ApprovePeer, RemovePeer, EditEndpoint, OpenWindow,
                CloseWindow, rcvVars
  <2>6. CASE UNCHANGED peerVars
    BY <2>6 DEF peerVars
  <2>7. QED
    BY <2>1, <2>2, <2>3, <2>4, <2>5, <2>6
<1>2. QED
  BY <1>1 DEF SlotInv, SlotIsTheLiveSession

\* Whatever order sessions are opened, superseded, timed out, dropped and ended in, the slot names the one
\* live session, never an ended one, and no live session is outside it (peer_link_sessions, peer_link/session).
THEOREM SlotIsTheLiveSessionHolds == PeeringSpec => []SlotIsTheLiveSession
<1>1. SlotInv /\ [PeeringNext]_peerVars => SlotInv'
  BY ClientKeepsSlot, ServerKeepsSlot, WorldKeepsSlot, OthersKeepSlot DEF PeeringNext, ClientStep, ServerStep
<1>2. SlotInv => SlotIsTheLiveSession
  BY DEF SlotInv
<1>3. QED
  BY <1>1, <1>2, SlotInit, PTL DEF PeeringSpec
-----------------------------------------------------------------------------
(* The offloader's clients: as long as operator commands and endpoint      *)
(* changes do not overlap unfinished work on the link (Overlap), at most   *)
(* one task runs or unwinds, and it is the one in the handle or the one    *)
(* whose teardown is waited for.                                           *)

Phase      == {"free", "wait", "dial", "open", "dying", "gone", "done", "superseded"}
TaskRecord == [ph : Phase, host : Addr, conn : Conn \cup {NoOne}]
RowRecord  == [st : {"none", "pending", "approved"}, host : Addr, gen : Nat]
Serving(k) == task[k].ph \in {"wait", "dial", "open"}
Dying(k)   == task[k].ph = "dying"

LinkTypes ==
    /\ conn \in [Conn -> ConnRecord]
    /\ addr \in Addr /\ row \in RowRecord /\ rowDisk \in RowRecord
    /\ req \in [st : {"none", "sent", "approved", "pending", "spawn"}, host : Addr]
    /\ task \in [Task -> TaskRecord] /\ handle \in Task \cup {NoOne} /\ openLink \in BOOLEAN
    /\ rebind \in [Cause -> [st : {"none", "probe", "teardown"}, host : Addr, gen : Nat,
                             victim : Task \cup {NoOne}]]

\* Who runs is in the handle; while somebody unwinds nobody runs and nobody is about to spawn.
ClientInv ==
    /\ \A k \in Task : Serving(k) => handle = k
    /\ \A k \in Task : Dying(k) => handle = NoOne /\ req.st = "none" /\ poll = "none"
    /\ \A j, k \in Task : Dying(j) /\ Dying(k) => j = k
    /\ poll \notin {"none", "spawn"} => row.st = "pending"

\* An endpoint change is alone with the pairing it is about, and respawns what it tore down.
RebindInv ==
    \A w \in Cause : rebind[w].st # "none" =>
        /\ req.st = "none" /\ poll = "none" /\ row.st = "approved"
        /\ \A v \in Cause : rebind[v].st # "none" => v = w
        /\ IF rebind[w].st = "probe" THEN \A k \in Task : ~Dying(k)
           ELSE handle = NoOne /\ \A k \in Task : Dying(k) => k = rebind[w].victim

\* The client's end of a connection belongs to a task, which holds no other, and a session that is told to
\* end while its client listens was lost before.
HeldInv ==
    /\ \A k \in Task : task[k].ph \in {"dial", "open"} => task[k].conn \in Conn /\ conn[task[k].conn].cl
    /\ \A c \in Conn : conn[c].cl =>
          /\ conn[c].told => conn[c].lost
          /\ \E k \in Task : task[k].ph \in {"dial", "open", "dying"} /\ task[k].conn = c

LinkInv == LinkTypes /\ ClientInv /\ RebindInv /\ HeldInv /\ OpenLinkIsTrue /\ NeverSupersedesItself
LEMMA RowType ==
    ASSUME NEW r \in RowRecord, NEW st \in {"none", "pending", "approved"}
    PROVE  /\ [r EXCEPT !.st = st] \in RowRecord /\ [r EXCEPT !.st = st].st = st
           /\ r.host \in Addr /\ r.gen \in Nat
BY DEF RowRecord

LEMMA LinkInit == PeeringInit => LinkInv
<1> SUFFICES ASSUME PeeringInit PROVE LinkInv
  OBVIOUS
<1> USE DEF PeeringInit
<1>1. LinkTypes
  <2>1. NoRow \in RowRecord /\ FreeTask \in TaskRecord
    BY DEF NoRow, RowRecord, FreeTask, TaskRecord, Phase
  <2>2. NoReq \in [st : {"none", "sent", "approved", "pending", "spawn"}, host : Addr]
    BY DEF NoReq
  <2>3. NoRebind \in [st : {"none", "probe", "teardown"}, host : Addr, gen : Nat, victim : Task \cup {NoOne}]
    BY DEF NoRebind
  <2>4. QED
    BY <2>1, <2>2, <2>3, FreeConnType DEF LinkTypes
<1>2. ClientInv /\ RebindInv /\ NeverSupersedesItself
  BY DEF ClientInv, RebindInv, NeverSupersedesItself, Serving, Dying, FreeTask, NoRebind
<1>3. HeldInv /\ OpenLinkIsTrue
  BY DEF HeldInv, OpenLinkIsTrue, FreeTask, FreeConn
<1>4. QED
  BY <1>1, <1>2, <1>3 DEF LinkInv

\* Nobody has two clients, so nobody holds two connections.
LEMMA OneClient ==
    ASSUME LinkInv
    PROVE  /\ \A j, k \in Task : (Serving(j) \/ Dying(j)) /\ (Serving(k) \/ Dying(k)) => j = k
           /\ \A c, d \in Conn : conn[c].cl /\ conn[d].cl => c = d
           /\ \A k \in Task : Serving(k) => \A j \in Task : ~Dying(j)
<1>1. \A j, k \in Task : (Serving(j) \/ Dying(j)) /\ (Serving(k) \/ Dying(k)) => j = k
  BY DEF LinkInv, ClientInv
<1>2. ASSUME NEW c \in Conn, NEW d \in Conn, conn[c].cl, conn[d].cl
      PROVE  c = d
  <2>1. PICK j \in Task : task[j].ph \in {"dial", "open", "dying"} /\ task[j].conn = c
    BY <1>2 DEF LinkInv, HeldInv
  <2>2. PICK k \in Task : task[k].ph \in {"dial", "open", "dying"} /\ task[k].conn = d
    BY <1>2 DEF LinkInv, HeldInv
  <2>3. j = k
    BY <1>1, <2>1, <2>2 DEF Serving, Dying
  <2>4. QED
    BY <2>1, <2>2, <2>3
<1>3. \A k \in Task : Serving(k) => \A j \in Task : ~Dying(j)
  BY DEF LinkInv, ClientInv
<1>4. QED
  BY <1>1, <1>2, <1>3

\* What a step says of the clients and the ends of connections they hold.
Clients == /\ task \in [Task -> TaskRecord] /\ handle \in Task \cup {NoOne}
           /\ \A k \in Task : Serving(k) => handle = k
           /\ HeldInv /\ OpenLinkIsTrue /\ NeverSupersedesItself

\* spawn_peer_link_client starts a client only where none runs.
LEMMA SpawnKeeps ==
    ASSUME LinkInv, NEW t \in [Task -> TaskRecord], NEW host \in Addr, SpawnFrom(t, host),
           \A k \in Task : t[k] = task[k] \/ (task[k].ph = "gone" /\ t[k] = FreeTask),
           \A k \in Task : ~Dying(k), conn' = conn, openLink' = openLink
    PROVE  Clients' /\ \A k \in Task : ~Dying(k)'
<1>1. task \in [Task -> TaskRecord] /\ handle \in Task \cup {NoOne} /\ openLink \in BOOLEAN
  BY DEF LinkInv, LinkTypes
<1>2. CASE Alive(handle)
  <2>1. task' = t /\ handle' = handle
    BY <1>2 DEF SpawnFrom
  <2>2. \A k \in Task : (t[k].ph = task[k].ph /\ t[k].conn = task[k].conn) \/ (task[k].ph = "gone" /\ t[k].ph = "free")
    BY DEF FreeTask
  <2>3. HeldInv'
    BY <2>1, <2>2 DEF LinkInv, HeldInv
  <2>4. OpenLinkIsTrue' /\ NeverSupersedesItself'
    BY <2>1, <2>2 DEF LinkInv, OpenLinkIsTrue, NeverSupersedesItself
  <2>5. \A k \in Task : (Serving(k)' => handle' = k) /\ ~Dying(k)'
    BY <2>1, <2>2 DEF LinkInv, ClientInv, Serving, Dying
  <2>6. QED
    BY <1>1, <2>1, <2>3, <2>4, <2>5 DEF Clients
<1>3. CASE ~Alive(handle)
  <2>1. PICK n \in Task : /\ task' = [t EXCEPT ![n] = [ph |-> "wait", host |-> host, conn |-> NoOne]]
                          /\ handle' = n
    BY <1>3 DEF SpawnFrom
  <2>2. \A k \in Task : ~Serving(k)
    BY <1>3, PeeringAssumption DEF LinkInv, ClientInv, Serving, Alive
  <2>3. ~openLink /\ \A c \in Conn : ~conn[c].cl
    BY <2>2 DEF LinkInv, OpenLinkIsTrue, HeldInv, Serving, Dying
  <2>4. \A k \in Task : k # n => task'[k].ph \notin {"wait", "dial", "open", "dying", "superseded"}
    BY <2>1, <2>2 DEF Serving, Dying, FreeTask, LinkInv, NeverSupersedesItself
  <2>5. task'[n].ph = "wait" /\ task' \in [Task -> TaskRecord]
    BY <2>1 DEF TaskRecord, Phase
  <2>6. HeldInv' /\ OpenLinkIsTrue' /\ NeverSupersedesItself'
    BY <2>3, <2>4, <2>5 DEF HeldInv, OpenLinkIsTrue, NeverSupersedesItself
  <2>7. QED
    BY <2>1, <2>4, <2>5, <2>6 DEF Clients, Serving, Dying
<1>4. QED
  BY <1>2, <1>3

\* cancel_peer_link_client leaves nobody running, and the one it stops to unwind.
LEMMA CancelKeeps ==
    ASSUME LinkInv, CancelClient, conn' = conn, openLink' = openLink \/ openLink' = FALSE,
           \A k \in Task : ~Dying(k)
    PROVE  Clients' /\ handle' = NoOne /\ \A k \in Task : Dying(k)' => k = handle /\ Alive(handle)
<1>1. task \in [Task -> TaskRecord] /\ handle \in Task \cup {NoOne} /\ openLink \in BOOLEAN
  BY DEF LinkInv, LinkTypes
<1>2. handle' = NoOne
  BY DEF CancelClient
<1>3. task' \in [Task -> TaskRecord]
  <2>1. FreeTask \in TaskRecord
    BY DEF FreeTask, TaskRecord, Phase
  <2>2. \A k \in Task : [task[k] EXCEPT !.ph = "dying"] \in TaskRecord
    BY <1>1 DEF TaskRecord, Phase
  <2>3. QED
    BY <1>1, <2>1, <2>2 DEF CancelClient, Alive
<1>4. \A k \in Task : \/ k # handle /\ task'[k] = task[k]
                      \/ k = handle /\ Alive(handle) /\ task'[k].ph = "dying" /\ task'[k].conn = task[k].conn
                      \/ k = handle /\ task'[k].ph = "free" /\ ~Serving(k)
  BY <1>1 DEF CancelClient, TaskRecord, FreeTask, Serving, Alive
<1>5. \A k \in Task : ~Serving(k)' /\ (Dying(k)' => k = handle /\ Alive(handle))
  BY <1>4 DEF LinkInv, ClientInv, Serving, Dying
<1>6. HeldInv'
  <2>1. ASSUME NEW c \in Conn, conn[c].cl
        PROVE  (conn[c].told => conn[c].lost) /\ \E k \in Task : task'[k].ph = "dying" /\ task'[k].conn = c
    <3>1. PICK k \in Task : task[k].ph \in {"dial", "open", "dying"} /\ task[k].conn = c
      BY <2>1 DEF LinkInv, HeldInv
    <3>2. Serving(k) /\ k = handle
      BY <3>1 DEF Serving, Dying, LinkInv, ClientInv
    <3>3. task'[k] # task[k]
      BY <1>5, <3>2 DEF Serving
    <3>4. QED
      BY <1>4, <2>1, <3>1, <3>2, <3>3 DEF LinkInv, HeldInv
  <2>2. QED
    BY <1>5, <2>1 DEF HeldInv, Serving
<1>7. OpenLinkIsTrue'
  <2>1. ASSUME openLink
        PROVE  \E k \in Task : task'[k].ph = "dying"
    <3>1. PICK k \in Task : task[k].ph = "open"
      BY <2>1 DEF LinkInv, OpenLinkIsTrue, Dying
    <3>2. task'[k] # task[k] /\ Serving(k)
      BY <1>5, <3>1 DEF Serving
    <3>3. QED
      BY <1>4, <3>2
  <2>2. QED
    BY <1>5, <2>1 DEF OpenLinkIsTrue, Serving
<1>8. NeverSupersedesItself'
  BY <1>4 DEF LinkInv, NeverSupersedesItself
<1>9. QED
  BY <1>2, <1>3, <1>5, <1>6, <1>7, <1>8 DEF Clients
Rest == <<row, rowDisk, poll, req, rebind>>

LEMMA HeldByOne ==
    ASSUME LinkInv, NEW k \in Task, Serving(k) \/ Dying(k), NEW c \in Conn, conn[c].cl
    PROVE  task[k].ph \in {"dial", "open", "dying"} /\ c = task[k].conn
<1>1. PICK j \in Task : task[j].ph \in {"dial", "open", "dying"} /\ task[j].conn = c
  BY DEF LinkInv, HeldInv
<1>2. j = k
  BY <1>1, OneClient DEF Serving, Dying
<1>3. QED
  BY <1>1, <1>2

\* The one client goes on or ends: it holds a connection exactly while it dials or has a session, and the pin
\* is in open_peer_links exactly while it has one.
LEMMA OneMoves ==
    ASSUME LinkInv, NEW k \in Task, Serving(k) \/ Dying(k), UNCHANGED <<Rest, addr, handle>>,
           NEW r \in TaskRecord, task' = [task EXCEPT ![k] = r], r.ph \notin {"dying", "superseded"},
           r.ph \in {"wait", "dial", "open"} => Serving(k),
           conn' \in [Conn -> ConnRecord], openLink' = (r.ph = "open"),
           r.ph \in {"dial", "open"} => r.conn \in Conn /\ conn'[r.conn].cl,
           \A c \in Conn : conn'[c].cl => /\ r.ph \in {"dial", "open"} /\ c = r.conn
                                          /\ conn'[c].told => conn'[c].lost
    PROVE  LinkInv'
<1>1. task \in [Task -> TaskRecord] /\ task'[k] = r
  BY DEF LinkInv, LinkTypes
<1>2. \A j \in Task : j # k => task'[j] = task[j] /\ ~Serving(j) /\ ~Dying(j)
  BY <1>1, OneClient
<1>3. LinkTypes'
  BY <1>1 DEF LinkInv, LinkTypes, Rest
<1>4. ClientInv'
  BY <1>1, <1>2 DEF LinkInv, ClientInv, Rest, Serving, Dying
<1>5. RebindInv'
  BY <1>1, <1>2 DEF LinkInv, RebindInv, Rest, Serving, Dying
<1>6. HeldInv'
  BY <1>1, <1>2 DEF HeldInv, Serving
<1>7. OpenLinkIsTrue' /\ NeverSupersedesItself'
  BY <1>1, <1>2 DEF LinkInv, OpenLinkIsTrue, NeverSupersedesItself, Serving
<1>8. QED
  BY <1>3, <1>4, <1>5, <1>6, <1>7 DEF LinkInv

LEMMA HangupType ==
    ASSUME conn \in [Conn -> ConnRecord], NEW c \in Conn, conn' = [conn EXCEPT ![c] = Hangup(c)]
    PROVE  /\ conn' \in [Conn -> ConnRecord] /\ ~conn'[c].cl
           /\ \A d \in Conn : d # c => conn'[d] = conn[d]
<1>1. [conn[c] EXCEPT !.cl = FALSE] \in ConnRecord /\ ~[conn[c] EXCEPT !.cl = FALSE].cl
  BY DEF ConnRecord
<1>2. Hangup(c) \in ConnRecord /\ ~Hangup(c).cl
  BY <1>1, FreeConnType DEF Hangup, FreeConn
<1>3. QED
  BY <1>2

LEMMA ClientKeepsLink ==
    ASSUME LinkInv, NEW k \in Task, TaskDials(k) \/ TaskReads(k) \/ TaskLoses(k) \/ TaskDies(k)
    PROVE  LinkInv'
<1>1. task \in [Task -> TaskRecord] /\ conn \in [Conn -> ConnRecord]
  BY DEF LinkInv, LinkTypes
<1>2. UNCHANGED <<Rest, addr, handle>>
  BY DEF TaskDials, TaskReads, TaskLoses, TaskDies, rcvVars, offVars, Rest
<1>3. CASE TaskDials(k)
  <2>1. PICK c \in Conn : /\ conn[c] = FreeConn /\ conn' = [conn EXCEPT ![c].cl = TRUE]
                          /\ task' = [task EXCEPT ![k].ph = "dial", ![k].conn = c]
    BY <1>3 DEF TaskDials
  <2> DEFINE r == [task[k] EXCEPT !.ph = "dial", !.conn = c]
  <2>2. r \in TaskRecord /\ r.ph = "dial" /\ r.conn = c
    BY <1>1 DEF TaskRecord, Phase
  <2>3. task' = [task EXCEPT ![k] = r]
    BY <1>1, <2>1
  <2>4. Serving(k) /\ task[k].ph = "wait"
    BY <1>3 DEF TaskDials, Serving
  <2>5. openLink' = FALSE
    BY <1>3, <2>4, OneClient DEF TaskDials, offVars, LinkInv, LinkTypes, OpenLinkIsTrue, Serving, Dying
  <2>6. \A d \in Conn : ~conn[d].cl
    BY <2>4, HeldByOne
  <2>7. conn' \in [Conn -> ConnRecord] /\ conn'[c].cl /\ ~conn'[c].told /\ \A d \in Conn : d # c => conn'[d] = conn[d]
    <3> DEFINE e == [FreeConn EXCEPT !.cl = TRUE]
    <3>1. e \in ConnRecord /\ e.cl /\ ~e.told
      BY DEF ConnRecord, FreeConn
    <3>2. conn' = [conn EXCEPT ![c] = e]
      BY <1>1, <2>1
    <3> HIDE DEF e
    <3>3. QED
      BY <1>1, <3>1, <3>2
  <2> HIDE DEF r
  <2>8. QED
    BY <1>2, <2>2, <2>3, <2>4, <2>5, <2>6, <2>7, OneMoves
<1>4. CASE TaskReads(k)
  <2> DEFINE c == task[k].conn
             a == conn[c].reply
             r == CASE a = "ok"      -> [task[k] EXCEPT !.ph = "open"]
                    [] a = "pending" -> [task[k] EXCEPT !.ph = "wait", !.conn = NoOne]
                    [] a = "revoked" -> [task[k] EXCEPT !.ph = "done", !.conn = NoOne]
  <2>1. /\ task[k].ph = "dial" /\ a # "none" /\ openLink' = (a = "ok") /\ task' = [task EXCEPT ![k] = r]
        /\ conn' = IF a = "ok" THEN conn ELSE [conn EXCEPT ![c] = Hangup(c)]
    BY <1>4 DEF TaskReads
  <2>2. c \in Conn /\ conn[c].cl /\ Serving(k) /\ (conn[c].told => conn[c].lost)
    BY <2>1 DEF LinkInv, HeldInv, Serving
  <2>3. a \in {"ok", "pending", "revoked"}
    BY <1>1, <2>1, <2>2 DEF ConnRecord
  <2>4. /\ r \in TaskRecord /\ r.ph = (IF a = "ok" THEN "open" ELSE IF a = "pending" THEN "wait" ELSE "done")
        /\ a = "ok" => r.conn = c
    <3>1. CASE a = "ok"
      BY <1>1, <2>2, <3>1 DEF TaskRecord, Phase
    <3>2. CASE a = "pending"
      BY <1>1, <3>2 DEF TaskRecord, Phase
    <3>3. CASE a = "revoked"
      BY <1>1, <3>3 DEF TaskRecord, Phase
    <3>4. QED
      BY <2>3, <3>1, <3>2, <3>3
  <2>5. \A d \in Conn : conn[d].cl => d = c
    BY <2>2, HeldByOne
  <2>6. /\ conn' \in [Conn -> ConnRecord]
        /\ \A d \in Conn : conn'[d].cl => d = c /\ a = "ok" /\ conn'[d] = conn[d]
        /\ a = "ok" => conn'[c].cl
    BY <1>1, <2>1, <2>2, <2>5, HangupType
  <2> HIDE DEF r, a
  <2>7. QED
    BY <1>2, <2>1, <2>2, <2>3, <2>4, <2>6, OneMoves
<1>5. CASE TaskLoses(k)
  <2> DEFINE c == task[k].conn
             r == [task[k] EXCEPT !.ph = "wait", !.conn = NoOne]
  <2>1. /\ task[k].ph \in {"dial", "open"} /\ openLink' = FALSE /\ conn' = [conn EXCEPT ![c] = Hangup(c)]
        /\ task' = [task EXCEPT ![k].ph = IF task[k].ph = "open" /\ conn[c].told /\ ~conn[c].lost
                                          THEN "superseded" ELSE "wait", ![k].conn = NoOne]
    BY <1>5 DEF TaskLoses, Closed
  <2>2. c \in Conn /\ conn[c].cl /\ Serving(k) /\ (conn[c].told => conn[c].lost)
    BY <2>1 DEF LinkInv, HeldInv, Serving
  <2>3. task' = [task EXCEPT ![k] = r]
    BY <1>1, <2>1, <2>2
  <2>4. r \in TaskRecord /\ r.ph = "wait"
    BY <1>1 DEF TaskRecord, Phase
  <2>5. conn' \in [Conn -> ConnRecord] /\ \A d \in Conn : ~conn'[d].cl
    BY <1>1, <2>1, <2>2, HangupType, HeldByOne
  <2> HIDE DEF r
  <2>6. QED
    BY <1>2, <2>1, <2>2, <2>3, <2>4, <2>5, OneMoves
<1>6. CASE TaskDies(k)
  <2> DEFINE c == task[k].conn
             r == IF \E w \in Cause : rebind[w].victim = k THEN [FreeTask EXCEPT !.ph = "gone"] ELSE FreeTask
  <2>1. /\ task[k].ph = "dying" /\ openLink' = FALSE /\ task' = [task EXCEPT ![k] = r]
        /\ conn' = IF c = NoOne THEN conn ELSE [conn EXCEPT ![c] = Hangup(c)]
    BY <1>6 DEF TaskDies, Closed
  <2>2. r \in TaskRecord /\ r.ph \in {"gone", "free"}
    BY PeeringAssumption DEF FreeTask, TaskRecord, Phase
  <2>3. c \in Conn \cup {NoOne} /\ NoOne \notin Conn
    BY <1>1, PeeringAssumption DEF TaskRecord
  <2>4. \A d \in Conn : conn[d].cl => d = c
    BY <2>1, HeldByOne DEF Dying
  <2>5. conn' \in [Conn -> ConnRecord] /\ \A d \in Conn : ~conn'[d].cl
    <3>1. CASE c = NoOne
      BY <1>1, <2>1, <2>3, <2>4, <3>1
    <3>2. CASE c # NoOne
      BY <1>1, <2>1, <2>3, <2>4, <3>2, HangupType
    <3>3. QED
      BY <3>1, <3>2
  <2>6. Dying(k)
    BY <2>1 DEF Dying
  <2> HIDE DEF r
  <2>7. QED
    BY <1>2, <2>1, <2>2, <2>5, <2>6, OneMoves
<1>7. QED
  BY <1>3, <1>4, <1>5, <1>6
\* Steps that leave the clients alone keep what the client's ends of connections say.
LEMMA ClientsStill ==
    ASSUME LinkInv, UNCHANGED <<task, handle, openLink>>,
           \A c \in Conn : /\ conn'[c].cl <=> conn[c].cl
                           /\ conn'[c].cl /\ conn'[c].told => conn'[c].lost \/ (conn[c].told /\ ~conn[c].lost)
    PROVE  Clients' /\ \A k \in Task : Dying(k)' <=> Dying(k)
<1>1. \A k \in Task : (Serving(k)' <=> Serving(k)) /\ (Dying(k)' <=> Dying(k))
  BY DEF Serving, Dying
<1>2. HeldInv'
  BY DEF LinkInv, HeldInv
<1>3. OpenLinkIsTrue' /\ NeverSupersedesItself'
  BY DEF LinkInv, OpenLinkIsTrue, NeverSupersedesItself
<1>4. QED
  BY <1>1, <1>2, <1>3 DEF Clients, LinkInv, LinkTypes, ClientInv

\* The parts put together.
LEMMA LinkParts ==
    ASSUME LinkInv, Clients', UNCHANGED Rest, LinkTypes',
           \A k \in Task : Dying(k)' <=> Dying(k), handle' = handle
    PROVE  LinkInv'
<1>1. ClientInv'
  BY DEF LinkInv, ClientInv, Clients, Rest
<1>2. RebindInv'
  BY DEF LinkInv, RebindInv, Rest
<1>3. QED
  BY <1>1, <1>2 DEF LinkInv, Clients

\* The receiver's handlers tell a session to end for another one, whose client would be a second, or because
\* it was lost.
LEMMA ServerKeepsLink ==
    ASSUME LinkInv, NEW c \in Conn, SlotInv',
           ServerAnswers(c) \/ ServerSettles(c) \/ ServerTimesOut(c) \/ ServerEnds(c)
    PROVE  LinkInv'
<1>1. UNCHANGED <<Rest, addr, task, handle, openLink>>
  BY DEF ServerAnswers, ServerSettles, ServerTimesOut, ServerEnds, offVars, linkVars, rcvVars, Rest
<1>2. conn \in [Conn -> ConnRecord]
  BY DEF LinkInv, LinkTypes
<1>3. \A d \in Conn : /\ conn'[d].cl <=> conn[d].cl
                      /\ conn'[d].cl /\ conn'[d].told => conn'[d].lost \/ (conn[d].told /\ ~conn[d].lost)
  <2>1. CASE ServerAnswers(c)
    <3>1. conn[c].cl
      BY <2>1 DEF ServerAnswers
    <3>2. \A d \in Conn : d # c => ~conn[d].cl
      BY <3>1, OneClient
    <3>3. conn'[c].cl /\ conn'[c].told = conn[c].told /\ conn'[c].lost = conn[c].lost
      BY <1>2, <2>1, <3>1 DEF ServerAnswers, ConnRecord
    <3>4. \A d \in Conn : d # c => conn'[d].cl = conn[d].cl
      BY <1>2, <2>1 DEF ServerAnswers, ConnRecord
    <3>5. QED
      BY <3>1, <3>2, <3>3, <3>4
  <2>2. CASE ServerSettles(c)
    <3>1. conn' = [conn EXCEPT ![c].sv = "serving"]
      BY <2>2 DEF ServerSettles
    <3>2. \A d \in Conn : conn'[d].cl = conn[d].cl /\ conn'[d].told = conn[d].told /\ conn'[d].lost = conn[d].lost
      BY <1>2, <3>1 DEF ConnRecord
    <3>3. QED
      BY <3>2
  <2>3. CASE ServerTimesOut(c)
    <3>1. conn' = [conn EXCEPT ![c].told = TRUE] /\ conn[c].lost
      BY <2>3 DEF ServerTimesOut
    <3>2. /\ \A d \in Conn : conn'[d].cl = conn[d].cl /\ conn'[d].lost = conn[d].lost
          /\ \A d \in Conn : d # c => conn'[d] = conn[d]
      BY <1>2, <3>1 DEF ConnRecord
    <3>3. QED
      BY <3>1, <3>2
  <2>4. CASE ServerEnds(c)
    <3>1. conn' = [conn EXCEPT ![c] = IF conn[c].cl THEN [conn[c] EXCEPT !.sv = "none"] ELSE FreeConn]
      BY <2>4 DEF ServerEnds
    <3>2. /\ \A d \in Conn : conn'[d].cl = conn[d].cl
          /\ \A d \in Conn : conn'[d].cl => conn'[d].told = conn[d].told /\ conn'[d].lost = conn[d].lost
      BY <1>2, <3>1 DEF ConnRecord, FreeConn
    <3>3. QED
      BY <3>2
  <2>5. QED
    BY <2>1, <2>2, <2>3, <2>4
<1>4. Clients' /\ \A k \in Task : Dying(k)' <=> Dying(k)
  BY <1>1, <1>3, ClientsStill
<1>5. LinkTypes'
  BY <1>1 DEF LinkInv, LinkTypes, SlotInv, Rest
<1>6. QED
  BY <1>1, <1>4, <1>5, LinkParts DEF Rest

\* Pairing: while an answer or a spawn is outstanding no client unwinds and no endpoint changes.
LEMMA PairingKeepsLink ==
    ASSUME LinkInv, ~Overlap,
           \/ RequestPair \/ RecordPairRequest \/ RequestFails \/ RequestCommits \/ PollStep \/ RequestSpawns
           \/ Unpair \/ ApprovePeer \/ RemovePeer \/ WindowDeadline \/ \E t \in Tab : OpenWindow(t) \/ CloseWindow(t)
    PROVE  LinkInv'
<1>1. conn' = conn /\ UNCHANGED <<rebind, addr, rowDisk>>
  BY DEF RequestPair, RecordPairRequest, RequestFails, RequestCommits, PollStep, PollAsks, PollWakes, PollApplies,
         PollSpawns, RequestSpawns, Unpair, ApprovePeer, RemovePeer, WindowDeadline, OpenWindow, CloseWindow,
         rcvVars, offVars
<1>2. CASE RequestSpawns \/ PollSpawns
  <2>1. /\ \A k \in Task : ~Dying(k)
        /\ \A w \in Cause : rebind[w].st = "none"
    BY <1>2 DEF RequestSpawns, PollSpawns, LinkInv, ClientInv, RebindInv
  <2>2. /\ SpawnFrom(task, row.host) /\ openLink' = openLink /\ UNCHANGED row
        /\ req' \in {req, NoReq} /\ poll' \in {poll, "none"}
    BY <1>2 DEF RequestSpawns, PollSpawns, Spawn
  <2>3. Clients' /\ \A k \in Task : ~Dying(k)'
    BY <1>1, <2>1, <2>2, SpawnKeeps, RowType DEF LinkInv, LinkTypes
  <2>4. LinkTypes'
    BY <1>1, <2>2, <2>3, PeeringAssumption DEF LinkInv, LinkTypes, Clients, OpenLinkIsTrue, NoReq
  <2>5. ClientInv' /\ RebindInv'
    BY <1>1, <2>1, <2>2, <2>3 DEF LinkInv, ClientInv, RebindInv, Clients
  <2>6. QED
    BY <2>3, <2>4, <2>5 DEF LinkInv, Clients
<1>3. CASE Unpair
  <2>1. /\ ~Busy /\ CancelClient /\ poll' = "none" /\ row' = [row EXCEPT !.st = "none"] /\ UNCHANGED req
        /\ openLink' = (openLink /\ row.st = "none")
    BY <1>3 DEF Unpair, Operator
  <2>2. (\A k \in Task : ~Dying(k)) /\ req.st = "none" /\ \A w \in Cause : rebind[w].st = "none"
    BY <2>1 DEF Busy, Rebinding, Dying
  <2>3. openLink' = openLink \/ openLink' = FALSE
    BY <2>1 DEF LinkInv, LinkTypes
  <2>4. Clients' /\ handle' = NoOne /\ \A k \in Task : Dying(k)' => k = handle
    BY <1>1, <2>1, <2>2, <2>3, CancelKeeps
  <2>5. row' \in RowRecord
    BY <2>1, RowType DEF LinkInv, LinkTypes
  <2>6. LinkTypes'
    BY <1>1, <2>1, <2>3, <2>4, <2>5 DEF LinkInv, LinkTypes, Clients
  <2>7. ClientInv' /\ RebindInv'
    BY <1>1, <2>1, <2>2, <2>4 DEF LinkInv, ClientInv, RebindInv, Clients
  <2>8. QED
    BY <2>4, <2>6, <2>7 DEF LinkInv, Clients
<1>4. CASE \/ RequestPair \/ RecordPairRequest \/ RequestFails \/ RequestCommits \/ PollAsks \/ PollWakes \/ PollApplies
           \/ ApprovePeer \/ RemovePeer \/ WindowDeadline \/ \E t \in Tab : OpenWindow(t) \/ CloseWindow(t)
  <2>1. UNCHANGED <<task, handle, openLink>>
    BY <1>4 DEF RequestPair, RecordPairRequest, RequestFails, RequestCommits, PollAsks, PollWakes, PollApplies,
         ApprovePeer, RemovePeer, WindowDeadline, OpenWindow, CloseWindow, rcvVars, offVars, linkVars
  <2>2. Clients' /\ \A k \in Task : Dying(k)' <=> Dying(k)
    BY <1>1, <2>1, ClientsStill
  <2>3. /\ LinkTypes' /\ (poll' \notin {"none", "spawn"} => row'.st = "pending")
        /\ \/ UNCHANGED <<row, req>> /\ (poll = "none" => poll' = "none")
           \/ /\ \A w \in Cause : rebind[w].st = "none"
              /\ \A k \in Task : ~Dying(k)
    <3>1. CASE RequestPair
      <4>1. req' = [st |-> "sent", host |-> addr] /\ UNCHANGED <<row, poll>> /\ ~Busy
        BY <3>1 DEF RequestPair, Operator
      <4>2. (\A w \in Cause : rebind[w].st = "none") /\ \A k \in Task : ~Dying(k)
        BY <4>1 DEF Busy, Rebinding, Dying
      <4>3. LinkTypes'
        BY <1>1, <2>1, <4>1 DEF LinkInv, LinkTypes
      <4>4. QED
        BY <4>1, <4>2, <4>3 DEF LinkInv, ClientInv
    <3>2. CASE RecordPairRequest \/ RequestFails \/ RequestCommits
      <4>1. req.st # "none"
        BY <3>2 DEF RecordPairRequest, RequestFails, RequestCommits
      <4>2. (\A w \in Cause : rebind[w].st = "none") /\ \A k \in Task : ~Dying(k)
        BY <4>1 DEF LinkInv, ClientInv, RebindInv
      <4>3. req' \in [st : {"none", "sent", "approved", "pending", "spawn"}, host : Addr]
        BY <3>2, PeeringAssumption DEF RecordPairRequest, RequestFails, RequestCommits, NoReq, LinkInv, LinkTypes
      <4>4. \/ UNCHANGED <<row, poll>>
            \/ row' \in RowRecord /\ (row'.st = "pending" \/ poll' = "none")
        BY <3>2 DEF RecordPairRequest, RequestFails, RequestCommits, LinkInv, LinkTypes, RowRecord
      <4>5. QED
        BY <1>1, <2>1, <4>2, <4>3, <4>4 DEF LinkInv, LinkTypes, ClientInv
    <3>3. CASE PollApplies
      <4>1. poll # "none" /\ poll' \in {"none", "spawn"} /\ UNCHANGED req /\ row' \in RowRecord
        BY <3>3, RowType DEF PollApplies, LinkInv, LinkTypes
      <4>2. (\A w \in Cause : rebind[w].st = "none") /\ \A k \in Task : ~Dying(k)
        BY <4>1 DEF LinkInv, ClientInv, RebindInv
      <4>3. LinkTypes'
        BY <1>1, <2>1, <4>1 DEF LinkInv, LinkTypes
      <4>4. QED
        BY <4>1, <4>2, <4>3
    <3>4. CASE \/ PollAsks \/ PollWakes \/ ApprovePeer \/ RemovePeer \/ WindowDeadline
               \/ \E t \in Tab : OpenWindow(t) \/ CloseWindow(t)
      <4>1. UNCHANGED <<row, req>>
        BY <3>4 DEF PollAsks, PollWakes, ApprovePeer, RemovePeer, WindowDeadline, OpenWindow, CloseWindow, offVars
      <4>2. poll' = poll \/ poll \in {"parked", "ask", "flipped"}
        BY <3>4 DEF PollAsks, PollWakes, ApprovePeer, RemovePeer, WindowDeadline, OpenWindow, CloseWindow, offVars,
                    Flip, ClearPending
      <4>3. QED
        BY <1>1, <2>1, <4>1, <4>2 DEF LinkInv, LinkTypes, ClientInv
    <3>5. QED
      BY <1>4, <3>1, <3>2, <3>3, <3>4
  <2>4. ClientInv' /\ RebindInv'
    BY <1>1, <2>1, <2>2, <2>3 DEF LinkInv, ClientInv, RebindInv, Clients
  <2>5. QED
    BY <2>2, <2>3, <2>4 DEF LinkInv, Clients
<1>5. QED
  BY <1>2, <1>3, <1>4 DEF PollStep
RebindRecord == [st : {"none", "probe", "teardown"}, host : Addr, gen : Nat, victim : Task \cup {NoOne}]

LEMMA RebindTypes ==
    ASSUME LinkInv
    PROVE  rebind \in [Cause -> RebindRecord] /\ NoRebind \in RebindRecord /\ NoRebind.st = "none"
BY PeeringAssumption DEF LinkInv, LinkTypes, NoRebind, RebindRecord

\* A probe starts for an approved pairing with nothing else under way.
LEMMA ProbeKeepsLink ==
    ASSUME LinkInv, ~Overlap, NEW w \in Cause, NEW h \in Addr, Probe(w, h), row.st = "approved",
           UNCHANGED <<task, handle, openLink, conn, req, poll, row, rowDisk, addr>>
    PROVE  LinkInv'
<1>1. rebind' = [rebind EXCEPT ![w] = [st |-> "probe", host |-> h, gen |-> row.gen, victim |-> NoOne]] /\ ~Busy
  BY DEF Probe, Operator
<1>2. /\ \A k \in Task : ~Dying(k)
      /\ req.st = "none" /\ poll = "none" /\ \A v \in Cause : rebind[v].st = "none"
  BY <1>1 DEF Busy, Rebinding, Dying, LinkInv, ClientInv
<1>3. Clients' /\ \A k \in Task : Dying(k)' <=> Dying(k)
  BY ClientsStill
<1>4. [st |-> "probe", host |-> h, gen |-> row.gen, victim |-> NoOne] \in RebindRecord
  BY RowType DEF LinkInv, LinkTypes, RebindRecord
<1>5. /\ rebind' \in [Cause -> RebindRecord] /\ rebind'[w].st = "probe"
      /\ \A v \in Cause : v # w => rebind'[v].st = "none"
  BY <1>1, <1>2, <1>4, RebindTypes
<1>6. LinkTypes'
  BY <1>5 DEF LinkInv, LinkTypes, RebindRecord
<1>7. ClientInv' /\ RebindInv'
  BY <1>2, <1>3, <1>5 DEF LinkInv, ClientInv, RebindInv, Clients
<1>8. QED
  BY <1>3, <1>6, <1>7 DEF LinkInv, Clients

\* It is refused, or it takes the endpoint over: at once when no client runs, else once the old one is gone.
LEMMA RebindKeepsLink ==
    ASSUME LinkInv, NEW w \in Cause, ProbeRefused(w) \/ ProbeCommits(w) \/ Respawn(w)
    PROVE  LinkInv'
<1>1. conn' = conn /\ UNCHANGED <<req, poll, rowDisk, addr, openLink>>
  BY DEF ProbeRefused, ProbeCommits, Respawn
<1>2. /\ rebind[w].st # "none"
      /\ req.st = "none" /\ poll = "none" /\ row.st = "approved" /\ \A v \in Cause : v # w => rebind[v].st = "none"
  BY DEF ProbeRefused, ProbeCommits, Respawn, LinkInv, RebindInv
<1>3. rebind[w] \in RebindRecord /\ rebind[w].host \in Addr
  BY RebindTypes DEF RebindRecord
<1>4. ASSUME rebind' = [rebind EXCEPT ![w] = NoRebind], LinkTypes', Clients', UNCHANGED row, \A k \in Task : ~Dying(k)'
      PROVE  LinkInv'
  <2>1. \A v \in Cause : rebind'[v].st = "none"
    BY <1>2, <1>4, RebindTypes
  <2>2. QED
    BY <1>1, <1>2, <1>4, <2>1 DEF LinkInv, ClientInv, RebindInv, Clients
<1>5. ASSUME rebind' = [rebind EXCEPT ![w] = NoRebind], Clients', row' \in RowRecord
      PROVE  LinkTypes'
  <2>1. rebind' \in [Cause -> RebindRecord]
    BY <1>5, RebindTypes
  <2>2. QED
    BY <1>1, <1>5, <2>1 DEF LinkInv, LinkTypes, Clients, RebindRecord
<1>6. CASE ProbeRefused(w)
  <2>1. UNCHANGED <<task, handle, row>> /\ rebind' = [rebind EXCEPT ![w] = NoRebind] /\ rebind[w].st = "probe"
    BY <1>6 DEF ProbeRefused, linkVars
  <2>2. Clients' /\ \A k \in Task : Dying(k)' <=> Dying(k)
    BY <1>1, <2>1, ClientsStill
  <2>3. \A k \in Task : ~Dying(k)
    BY <2>1 DEF LinkInv, RebindInv
  <2>4. row' \in RowRecord
    BY <2>1 DEF LinkInv, LinkTypes
  <2>5. QED
    BY <1>4, <1>5, <2>1, <2>2, <2>3, <2>4
<1>7. CASE ProbeCommits(w)
  <2>1. rebind[w].st = "probe" /\ row' = [row EXCEPT !.host = rebind[w].host]
    BY <1>7 DEF ProbeCommits
  <2>2. row' \in RowRecord /\ row'.st = "approved"
    BY <1>2, <1>3, <2>1 DEF LinkInv, LinkTypes, RowRecord
  <2>3. \A k \in Task : ~Dying(k)
    BY <2>1 DEF LinkInv, RebindInv
  <2>4. CASE Alive(handle)
    <3> DEFINE b == [rebind[w] EXCEPT !.st = "teardown", !.victim = handle]
    <3>1. CancelClient /\ rebind' = [rebind EXCEPT ![w] = b]
      BY <1>7, <2>4, RebindTypes DEF ProbeCommits
    <3>2. Clients' /\ handle' = NoOne /\ \A k \in Task : Dying(k)' => k = handle
      BY <1>1, <2>3, <3>1, CancelKeeps
    <3>3. b \in RebindRecord /\ b.st = "teardown" /\ b.victim = handle
      BY <1>3 DEF LinkInv, LinkTypes, RebindRecord
    <3> HIDE DEF b
    <3>4. rebind' \in [Cause -> RebindRecord] /\ rebind'[w] = b /\ \A v \in Cause : v # w => rebind'[v] = rebind[v]
      BY <3>1, <3>3, RebindTypes
    <3>5. LinkTypes'
      BY <1>1, <2>2, <3>2, <3>4 DEF LinkInv, LinkTypes, Clients, RebindRecord
    <3>6. ClientInv'
      BY <1>1, <1>2, <3>2 DEF LinkInv, ClientInv, Clients
    <3>7. RebindInv'
      BY <1>1, <1>2, <2>2, <3>2, <3>3, <3>4 DEF RebindInv
    <3>8. QED
      BY <3>2, <3>5, <3>6, <3>7 DEF LinkInv, Clients
  <2>5. CASE ~Alive(handle)
    <3>1. SpawnFrom(task, rebind[w].host) /\ rebind' = [rebind EXCEPT ![w] = NoRebind]
      BY <1>7, <2>5 DEF ProbeCommits, Spawn
    <3>2. Clients' /\ \A k \in Task : ~Dying(k)'
      BY <1>1, <1>3, <2>3, <3>1, SpawnKeeps DEF LinkInv, LinkTypes
    <3>3. LinkTypes' /\ \A v \in Cause : rebind'[v].st = "none"
      BY <1>2, <1>5, <2>2, <3>1, <3>2, RebindTypes
    <3>4. QED
      BY <1>1, <1>2, <2>2, <3>2, <3>3 DEF LinkInv, ClientInv, RebindInv, Clients
  <2>6. QED
    BY <2>4, <2>5
<1>8. CASE Respawn(w)
  <2> DEFINE v == rebind[w].victim
             t == [task EXCEPT ![v] = IF task[v].ph = "gone" THEN FreeTask ELSE task[v]]
  <2>1. /\ rebind[w].st = "teardown" /\ task[v].ph = "gone" /\ SpawnFrom(t, rebind[w].host) /\ UNCHANGED row
        /\ rebind' = [rebind EXCEPT ![w] = NoRebind]
    BY <1>8 DEF Respawn, Unwound
  <2>2. \A k \in Task : ~Dying(k)
    BY <2>1 DEF LinkInv, RebindInv, Dying
  <2>3. FreeTask \in TaskRecord /\ task \in [Task -> TaskRecord]
    BY PeeringAssumption DEF FreeTask, TaskRecord, Phase, LinkInv, LinkTypes
  <2>4. /\ t \in [Task -> TaskRecord]
        /\ \A k \in Task : t[k] = task[k] \/ (task[k].ph = "gone" /\ t[k] = FreeTask)
    BY <2>3
  <2> HIDE DEF t
  <2>5. Clients' /\ \A k \in Task : ~Dying(k)'
    BY <1>1, <1>3, <2>1, <2>2, <2>4, SpawnKeeps
  <2>6. row' \in RowRecord
    BY <2>1 DEF LinkInv, LinkTypes
  <2>7. QED
    BY <1>4, <1>5, <2>1, <2>5, <2>6
<1>9. QED
  BY <1>6, <1>7, <1>8

\* The network and the receiver end connections only; the offloader's restart leaves one client, or none.
LEMMA WorldKeepsLink ==
    ASSUME LinkInv, SlotInv', ~Overlap, \/ WorldStep \/ TimerStep \/ UNCHANGED peerVars
                                        \/ \E h \in Addr : EditEndpoint(h)
    PROVE  LinkInv'
<1>1. conn \in [Conn -> ConnRecord] /\ conn' \in [Conn -> ConnRecord]
  BY DEF SlotInv, LinkInv, LinkTypes
<1>2. CASE \E h \in Addr : EditEndpoint(h)
  BY <1>2, ProbeKeepsLink DEF EditEndpoint, rcvVars, linkVars, Cause
<1>3. CASE MdnsSeen
  <2>1. addr \in Addr
    BY DEF LinkInv, LinkTypes
  <2>2. QED
    BY <1>3, <2>1, ProbeKeepsLink DEF MdnsSeen, rcvVars, linkVars, Cause
<1>4. CASE HandleConnectBack /\ rebind' # rebind
  <2>1. addr \in Addr
    BY DEF LinkInv, LinkTypes
  <2>2. QED
    BY <1>4, <2>1, ProbeKeepsLink DEF HandleConnectBack, linkVars, Cause
<1>5. CASE WindowDeadline
  BY <1>5, PairingKeepsLink
<1>6. CASE OffloaderRestarts
  <2>1. /\ row' = rowDisk /\ poll' = "none" /\ req' = NoReq /\ openLink' = FALSE
        /\ rebind' = [w \in Cause |-> NoRebind] /\ UNCHANGED <<addr, rowDisk>>
        /\ conn' = [c \in Conn |-> IF conn[c].sv = "none" THEN FreeConn ELSE [conn[c] EXCEPT !.cl = FALSE]]
    BY <1>6 DEF OffloaderRestarts
  <2>2. \A c \in Conn : ~conn'[c].cl
    BY <1>1, <2>1 DEF ConnRecord, FreeConn
  <2>3. PICK k \in Task :
            IF rowDisk.st = "approved"
            THEN /\ task' = [j \in Task |-> IF j = k THEN [ph |-> "wait", host |-> rowDisk.host, conn |-> NoOne]
                                            ELSE FreeTask]
                 /\ handle' = k
            ELSE task' = [j \in Task |-> FreeTask] /\ handle' = NoOne
    BY <1>6 DEF OffloaderRestarts
  <2>4. FreeTask \in TaskRecord /\ [ph |-> "wait", host |-> rowDisk.host, conn |-> NoOne] \in TaskRecord
    BY PeeringAssumption, RowType DEF FreeTask, TaskRecord, Phase, LinkInv, LinkTypes
  <2>5. task' \in [Task -> TaskRecord] /\ handle' \in Task \cup {NoOne}
    BY <2>3, <2>4
  <2>6. \A j \in Task : task'[j].ph = "free" \/ (task'[j].ph = "wait" /\ handle' = j)
    BY <2>3 DEF FreeTask
  <2>7. Clients' /\ \A j \in Task : ~Dying(j)'
    BY <2>1, <2>2, <2>5, <2>6 DEF Clients, HeldInv, OpenLinkIsTrue, NeverSupersedesItself, Serving, Dying
  <2>8. NoReq \in [st : {"none", "sent", "approved", "pending", "spawn"}, host : Addr]
    BY PeeringAssumption DEF NoReq
  <2>9. LinkTypes'
    BY <1>1, <2>1, <2>7, <2>8, RebindTypes DEF LinkInv, LinkTypes, Clients, RebindRecord
  <2>10. ClientInv' /\ RebindInv'
    BY <2>1, <2>7 DEF ClientInv, RebindInv, Clients, NoRebind
  <2>11. QED
    BY <2>7, <2>9, <2>10 DEF LinkInv, Clients
<1>7. CASE \/ DialFails \/ SweepConnectBack \/ ProbeSlotExpires \/ SavePeers \/ SavePairings
           \/ (HandleConnectBack /\ rebind' = rebind) \/ UNCHANGED peerVars
  <2>1. \/ UNCHANGED <<Rest, addr, task, handle, openLink>>
        \/ (SavePairings /\ UNCHANGED <<row, poll, req, rebind, addr, task, handle, openLink>>)
    BY <1>7 DEF DialFails, SweepConnectBack, ProbeSlotExpires, SavePeers, SavePairings, HandleConnectBack, peerVars,
                offVars, linkVars, rcvVars, Rest
  <2>2. conn' = conn
    BY <1>7 DEF DialFails, SweepConnectBack, ProbeSlotExpires, SavePeers, SavePairings, HandleConnectBack, peerVars,
                offVars, linkVars, rcvVars, Rest
  <2>3. rowDisk' \in RowRecord
    BY <1>7, <2>1, RowType DEF SavePairings, ApprovedRow, LinkInv, LinkTypes, Rest
  <2>4. Clients' /\ \A k \in Task : Dying(k)' <=> Dying(k)
    BY <2>1, <2>2, ClientsStill
  <2>5. LinkTypes'
    BY <2>1, <2>2, <2>3 DEF LinkInv, LinkTypes, Rest
  <2>6. ClientInv' /\ RebindInv'
    BY <2>1, <2>4 DEF LinkInv, ClientInv, RebindInv, Clients, Rest
  <2>7. QED
    BY <2>4, <2>5, <2>6 DEF LinkInv, Clients
<1>8. CASE ReceiverMoves \/ ReceiverRestarts \/ \E c \in Conn : DropConnection(c)
  <2>1. /\ UNCHANGED <<row, rowDisk, req, rebind, task, handle, openLink>>
        /\ (poll' = poll \/ (poll \in {"parked", "flipped"} /\ poll' = "ask"))
    BY <1>8 DEF ReceiverMoves, ReceiverRestarts, DropConnection, Unparked, offVars, linkVars
  <2>2. addr' \in Addr
    BY <1>8 DEF ReceiverMoves, ReceiverRestarts, DropConnection, rcvVars, LinkInv, LinkTypes
  <2>3. \A c \in Conn : /\ conn'[c].cl <=> conn[c].cl
                        /\ conn'[c].cl /\ conn'[c].told => conn'[c].lost \/ (conn[c].told /\ ~conn[c].lost)
    <3>1. \A c \in Conn : /\ Lost(conn[c]).cl = conn[c].cl /\ Lost(conn[c]).told = conn[c].told
                          /\ (conn[c].cl => Lost(conn[c]).lost)
      BY <1>1, LostType DEF Lost, ConnRecord
    <3>2. \A c \in Conn : /\ [Lost(conn[c]) EXCEPT !.sv = "none"].cl = conn[c].cl
                          /\ conn[c].cl => [Lost(conn[c]) EXCEPT !.sv = "none"].lost
      BY <1>1, <3>1, LostType DEF ConnRecord
    <3>3. CASE ReceiverRestarts
      <4>1. conn' = [c \in Conn |-> IF conn[c].cl THEN [Lost(conn[c]) EXCEPT !.sv = "none"] ELSE FreeConn]
        BY <3>3 DEF ReceiverRestarts
      <4>2. ~FreeConn.cl
        BY DEF FreeConn
      <4>3. QED
        BY <3>2, <4>1, <4>2
    <3>4. CASE ReceiverMoves
      BY <3>1, <3>4 DEF ReceiverMoves
    <3>5. CASE \E c \in Conn : DropConnection(c)
      <4>1. \A c \in Conn : conn'[c] = conn[c] \/ conn'[c] = Lost(conn[c])
        BY <1>1, <3>5 DEF DropConnection
      <4>2. QED
        BY <3>1, <4>1
    <3>6. QED
      BY <1>8, <3>3, <3>4, <3>5
  <2>4. Clients' /\ \A k \in Task : Dying(k)' <=> Dying(k)
    BY <2>1, <2>3, ClientsStill
  <2>5. LinkTypes'
    BY <1>1, <2>1, <2>2 DEF LinkInv, LinkTypes
  <2>6. ClientInv' /\ RebindInv'
    BY <2>1, <2>4 DEF LinkInv, ClientInv, RebindInv, Clients
  <2>7. QED
    BY <2>4, <2>5, <2>6 DEF LinkInv, Clients
<1>9. QED
  BY <1>2, <1>3, <1>4, <1>5, <1>6, <1>7, <1>8 DEF WorldStep, TimerStep

LEMMA NextLink ==
    ASSUME LinkInv, SlotInv', ~Overlap, [PeeringNext]_peerVars
    PROVE  LinkInv'
<1>1. CASE ClientStep
  BY <1>1, ClientKeepsLink DEF ClientStep
<1>2. CASE ServerStep
  BY <1>2, ServerKeepsLink DEF ServerStep
<1>3. CASE RequestStep \/ PollStep
  BY <1>3, PairingKeepsLink DEF RequestStep
<1>4. CASE RebindStep
  BY <1>4, RebindKeepsLink DEF RebindStep
<1>5. CASE OperatorStep
  BY <1>5, PairingKeepsLink, WorldKeepsLink DEF OperatorStep
<1>6. CASE WorldStep \/ TimerStep \/ UNCHANGED peerVars
  BY <1>6, WorldKeepsLink
<1>7. QED
  BY <1>1, <1>2, <1>3, <1>4, <1>5, <1>6 DEF PeeringNext

\* LinkInv is inductive, given that the connections are well typed (SlotInv).
THEOREM LinkInvHolds == ~Overlap => (PeeringSpec => []LinkInv)
<1> SUFFICES ASSUME ~Overlap PROVE PeeringSpec => []LinkInv
  OBVIOUS
<1>1. LinkInv /\ SlotInv' /\ [PeeringNext]_peerVars => LinkInv'
  BY NextLink
<1>2. SlotInv /\ [PeeringNext]_peerVars => SlotInv'
  BY ClientKeepsSlot, ServerKeepsSlot, WorldKeepsSlot, OthersKeepSlot DEF PeeringNext, ClientStep, ServerStep
<1>3. QED
  BY <1>1, <1>2, SlotInit, LinkInit, PTL DEF PeeringSpec

\* However drops, moves, restarts and an endpoint change race, the offloader never has two sessions, so no late
\* registration supersedes its own client and orphans it (commit_endpoint_rebind waits for the old client).
THEOREM NeverSupersedesItselfHolds == ~Overlap => (PeeringSpec => []NeverSupersedesItself)
BY LinkInvHolds, PTL DEF LinkInv

\* Whatever ends, cancels or replaces clients in whatever order, the pin is in open_peer_links exactly while its
\* client has a session, or is still unwinding from one.
THEOREM OpenLinkIsTrueHolds == ~Overlap => (PeeringSpec => []OpenLinkIsTrue)
BY LinkInvHolds, PTL DEF LinkInv

\* commit_guard looks after the probe's last await: a connect-back never tears down a session that opened while
\* it probed.
THEOREM CommitSparesSessionHolds == ~Overlap => (PeeringSpec => CommitSparesSession)
<1> SUFFICES ASSUME ~Overlap PROVE PeeringSpec => CommitSparesSession
  OBVIOUS
<1>1. LinkInv /\ [PeeringNext]_peerVars =>
        [\A k \in Task : task[k].ph = "open" /\ task'[k].ph = "dying" =>
             ~(rebind["back"].st = "probe" /\ rebind'["back"].st = "teardown")]_peerVars
  <2> SUFFICES ASSUME LinkInv, PeeringNext, NEW k \in Task, task[k].ph = "open",
                      rebind["back"].st = "probe", rebind'["back"].st = "teardown"
               PROVE  FALSE
    OBVIOUS
  <2>1. openLink
    BY DEF LinkInv, OpenLinkIsTrue
  <2>2. rebind' # rebind
    OBVIOUS
  <2>3. ProbeCommits("back")
    <3>1. rebind \in [Cause -> RebindRecord] /\ "back" \in Cause
      BY RebindTypes DEF Cause
    <3>2. ASSUME NEW w \in Cause, ProbeRefused(w) \/ Respawn(w) PROVE FALSE
      BY <3>1, <3>2 DEF ProbeRefused, Respawn, NoRebind
    <3>3. ASSUME NEW w \in Cause, ProbeCommits(w) PROVE w = "back"
      <4>1. rebind'["back"] = rebind["back"] \/ w = "back"
        BY <3>1, <3>3 DEF ProbeCommits
      <4>2. QED
        BY <4>1
    <3>4. ASSUME NEW w \in Cause, NEW h, Probe(w, h) PROVE FALSE
      BY <3>1, <3>4 DEF Probe
    <3>5. CASE HandleConnectBack \/ MdnsSeen \/ \E h \in Addr : EditEndpoint(h)
      BY <2>2, <3>4, <3>5 DEF HandleConnectBack, MdnsSeen, EditEndpoint, Cause
    <3>6. CASE OffloaderRestarts
      BY <3>1, <3>6 DEF OffloaderRestarts, NoRebind
    <3>7. CASE RebindStep
      BY <3>2, <3>3, <3>7 DEF RebindStep
    <3>8. CASE ClientStep \/ ServerStep
      BY <2>2, <3>8 DEF ClientStep, ServerStep, TaskDials, TaskReads, TaskLoses, TaskDies,
           ServerAnswers, ServerSettles, ServerTimesOut, ServerEnds, offVars
    <3>9. CASE RequestStep \/ PollStep
      BY <2>2, <3>9 DEF RequestStep, PollStep, RecordPairRequest, RequestFails, RequestCommits, RequestSpawns,
           PollAsks, PollWakes, PollApplies, PollSpawns
    <3>10. CASE \/ SweepConnectBack \/ ProbeSlotExpires \/ SavePeers \/ SavePairings \/ WindowDeadline
                \/ DialFails \/ ReceiverMoves \/ ReceiverRestarts \/ \E c \in Conn : DropConnection(c)
      BY <2>2, <3>10 DEF SweepConnectBack, ProbeSlotExpires, SavePeers, SavePairings, WindowDeadline,
           DialFails, ReceiverMoves, ReceiverRestarts, DropConnection, offVars
    <3>11. CASE \/ RequestPair \/ Unpair \/ ApprovePeer \/ RemovePeer \/ \E t \in Tab : OpenWindow(t) \/ CloseWindow(t)
      BY <2>2, <3>11 DEF RequestPair, Unpair, ApprovePeer, RemovePeer, OpenWindow, CloseWindow, offVars
    <3>12. QED
      BY <3>3, <3>5, <3>6, <3>7, <3>8, <3>9, <3>10, <3>11 DEF PeeringNext, TimerStep, OperatorStep, WorldStep
  <2>4. QED
    BY <2>1, <2>3 DEF ProbeCommits, MayCommit, CommitGuard
<1>2. QED
  BY <1>1, LinkInvHolds, PTL DEF PeeringSpec, CommitSparesSession

------------------------------------------------------------------------------
\* Device state monitor

HIDE PeeringAssumption

Device == [on : BOOLEAN, state : {"unknown", "online", "offline"}, src : Source, live : BOOLEAN, known : BOOLEAN]
Model  == [own : Source, dev : [Cfg -> Device], frames : SUBSET (Cfg \X BOOLEAN)]

\* Every configuration of the name has the value v now, the rest of the devices is as it was.
Spread(m, r, f, v) ==
    /\ r \in Model /\ r.own = m.own
    /\ \A c \in Cfg : /\ r.dev[c].on = m.dev[c].on
                      /\ r.dev[c].state = IF f = "state" /\ m.dev[c].on THEN v ELSE m.dev[c].state
                      /\ r.dev[c].src = IF f = "src" /\ m.dev[c].on THEN v ELSE m.dev[c].src
                      /\ r.dev[c].live = IF f = "live" /\ m.dev[c].on THEN v ELSE m.dev[c].live
                      /\ r.dev[c].known = IF f = "known" /\ m.dev[c].on THEN v ELSE m.dev[c].known
    /\ \A c \in Cfg : <<c, FALSE>> \in r.frames =>
          <<c, FALSE>> \in m.frames \/ (f # "state" /\ m.dev[c].on /\ ~Gate(c, r.dev[c]))

LEMMA FanState ==
    ASSUME NEW m \in Model, NEW v \in {"unknown", "online", "offline"}
    PROVE  Spread(m, FanOut(m, "state", v), "state", v)
<1> DEFINE changed == {c \in Cfg : m.dev[c].on /\ m.dev[c].state # v}
           dev2 == [c \in Cfg |-> IF c \in changed THEN [m.dev[c] EXCEPT !.state = v] ELSE m.dev[c]]
           frames2 == m.frames
           r == [m EXCEPT !.dev = dev2, !.frames = frames2]
<1>1. FanOut(m, "state", v) = r
  BY DEF FanOut, Bucket
<1>2. /\ m.dev \in [Cfg -> Device] /\ m.frames \in SUBSET (Cfg \X BOOLEAN) /\ m.own \in Source
  BY DEF Model
<1>3. \A c \in Cfg : /\ dev2[c] \in Device
                      /\ dev2[c].src = m.dev[c].src
                      /\ dev2[c].live = m.dev[c].live
                      /\ dev2[c].known = m.dev[c].known
                      /\ dev2[c].on = m.dev[c].on
                      /\ dev2[c].state = IF m.dev[c].on THEN v ELSE m.dev[c].state
  BY <1>2 DEF Device
<1>4. \A c \in Cfg : Gate(c, dev2[c]) \in BOOLEAN
  BY DEF Gate
<1>5. frames2 \in SUBSET (Cfg \X BOOLEAN)
  <2> HIDE DEF dev2
  <2>1. \A c \in changed : <<c, Gate(c, dev2[c])>> \in Cfg \X BOOLEAN
    BY <1>4
  <2>2. QED
    BY <1>2, <2>1
<1>6. \A c \in Cfg : <<c, FALSE>> \in frames2 => <<c, FALSE>> \in m.frames
  OBVIOUS
<1>7. dev2 \in [Cfg -> Device]
  BY <1>3
<1> HIDE DEF dev2, frames2
<1>8. r \in Model /\ r.own = m.own /\ r.dev = dev2 /\ r.frames = frames2
  BY <1>2, <1>5, <1>7 DEF Model
<1>9. QED
  <2> HIDE DEF r
  <2>1. \A c \in Cfg : Gate(c, r.dev[c]) <=> Gate(c, dev2[c])
    BY <1>8
  <2>2. QED
    BY <1>1, <1>3, <1>6, <1>8, <2>1 DEF Spread

LEMMA FanSrc ==
    ASSUME NEW m \in Model, NEW v \in Source
    PROVE  Spread(m, FanOut(m, "src", v), "src", v)
<1> DEFINE changed == {c \in Cfg : m.dev[c].on /\ m.dev[c].src # v}
           dev2 == [c \in Cfg |-> IF c \in changed THEN [m.dev[c] EXCEPT !.src = v] ELSE m.dev[c]]
           frames2 == m.frames \cup {<<c, Gate(c, dev2[c])>> : c \in changed}
           r == [m EXCEPT !.dev = dev2, !.frames = frames2]
<1>1. FanOut(m, "src", v) = r
  BY DEF FanOut, Bucket
<1>2. /\ m.dev \in [Cfg -> Device] /\ m.frames \in SUBSET (Cfg \X BOOLEAN) /\ m.own \in Source
  BY DEF Model
<1>3. \A c \in Cfg : /\ dev2[c] \in Device
                      /\ dev2[c].state = m.dev[c].state
                      /\ dev2[c].live = m.dev[c].live
                      /\ dev2[c].known = m.dev[c].known
                      /\ dev2[c].on = m.dev[c].on
                      /\ dev2[c].src = IF m.dev[c].on THEN v ELSE m.dev[c].src
  BY <1>2 DEF Device
<1>4. \A c \in Cfg : Gate(c, dev2[c]) \in BOOLEAN
  BY DEF Gate
<1>5. frames2 \in SUBSET (Cfg \X BOOLEAN)
  <2> HIDE DEF dev2
  <2>1. \A c \in changed : <<c, Gate(c, dev2[c])>> \in Cfg \X BOOLEAN
    BY <1>4
  <2>2. QED
    BY <1>2, <2>1
<1>6. \A c \in Cfg : <<c, FALSE>> \in frames2 => <<c, FALSE>> \in m.frames \/ (m.dev[c].on /\ ~Gate(c, dev2[c]))
  OBVIOUS
<1>7. dev2 \in [Cfg -> Device]
  BY <1>3
<1> HIDE DEF dev2, frames2
<1>8. r \in Model /\ r.own = m.own /\ r.dev = dev2 /\ r.frames = frames2
  BY <1>2, <1>5, <1>7 DEF Model
<1>9. QED
  <2> HIDE DEF r
  <2>1. \A c \in Cfg : Gate(c, r.dev[c]) <=> Gate(c, dev2[c])
    BY <1>8
  <2>2. QED
    BY <1>1, <1>3, <1>6, <1>8, <2>1 DEF Spread

LEMMA FanLive ==
    ASSUME NEW m \in Model, NEW v \in BOOLEAN
    PROVE  Spread(m, FanOut(m, "live", v), "live", v)
<1> DEFINE changed == {c \in Cfg : m.dev[c].on /\ m.dev[c].live # v}
           dev2 == [c \in Cfg |-> IF c \in changed THEN [m.dev[c] EXCEPT !.live = v] ELSE m.dev[c]]
           frames2 == m.frames \cup {<<c, Gate(c, dev2[c])>> : c \in changed}
           r == [m EXCEPT !.dev = dev2, !.frames = frames2]
<1>1. FanOut(m, "live", v) = r
  BY DEF FanOut, Bucket
<1>2. /\ m.dev \in [Cfg -> Device] /\ m.frames \in SUBSET (Cfg \X BOOLEAN) /\ m.own \in Source
  BY DEF Model
<1>3. \A c \in Cfg : /\ dev2[c] \in Device
                      /\ dev2[c].state = m.dev[c].state
                      /\ dev2[c].src = m.dev[c].src
                      /\ dev2[c].known = m.dev[c].known
                      /\ dev2[c].on = m.dev[c].on
                      /\ dev2[c].live = IF m.dev[c].on THEN v ELSE m.dev[c].live
  BY <1>2 DEF Device
<1>4. \A c \in Cfg : Gate(c, dev2[c]) \in BOOLEAN
  BY DEF Gate
<1>5. frames2 \in SUBSET (Cfg \X BOOLEAN)
  <2> HIDE DEF dev2
  <2>1. \A c \in changed : <<c, Gate(c, dev2[c])>> \in Cfg \X BOOLEAN
    BY <1>4
  <2>2. QED
    BY <1>2, <2>1
<1>6. \A c \in Cfg : <<c, FALSE>> \in frames2 => <<c, FALSE>> \in m.frames \/ (m.dev[c].on /\ ~Gate(c, dev2[c]))
  OBVIOUS
<1>7. dev2 \in [Cfg -> Device]
  BY <1>3
<1> HIDE DEF dev2, frames2
<1>8. r \in Model /\ r.own = m.own /\ r.dev = dev2 /\ r.frames = frames2
  BY <1>2, <1>5, <1>7 DEF Model
<1>9. QED
  <2> HIDE DEF r
  <2>1. \A c \in Cfg : Gate(c, r.dev[c]) <=> Gate(c, dev2[c])
    BY <1>8
  <2>2. QED
    BY <1>1, <1>3, <1>6, <1>8, <2>1 DEF Spread

LEMMA FanKnown ==
    ASSUME NEW m \in Model, NEW v \in BOOLEAN
    PROVE  Spread(m, FanOut(m, "known", v), "known", v)
<1> DEFINE changed == {c \in Cfg : m.dev[c].on /\ m.dev[c].known # v}
           dev2 == [c \in Cfg |-> IF c \in changed THEN [m.dev[c] EXCEPT !.known = v] ELSE m.dev[c]]
           frames2 == m.frames \cup {<<c, Gate(c, dev2[c])>> : c \in changed}
           r == [m EXCEPT !.dev = dev2, !.frames = frames2]
<1>1. FanOut(m, "known", v) = r
  BY DEF FanOut, Bucket
<1>2. /\ m.dev \in [Cfg -> Device] /\ m.frames \in SUBSET (Cfg \X BOOLEAN) /\ m.own \in Source
  BY DEF Model
<1>3. \A c \in Cfg : /\ dev2[c] \in Device
                      /\ dev2[c].state = m.dev[c].state
                      /\ dev2[c].src = m.dev[c].src
                      /\ dev2[c].live = m.dev[c].live
                      /\ dev2[c].on = m.dev[c].on
                      /\ dev2[c].known = IF m.dev[c].on THEN v ELSE m.dev[c].known
  BY <1>2 DEF Device
<1>4. \A c \in Cfg : Gate(c, dev2[c]) \in BOOLEAN
  BY DEF Gate
<1>5. frames2 \in SUBSET (Cfg \X BOOLEAN)
  <2> HIDE DEF dev2
  <2>1. \A c \in changed : <<c, Gate(c, dev2[c])>> \in Cfg \X BOOLEAN
    BY <1>4
  <2>2. QED
    BY <1>2, <2>1
<1>6. \A c \in Cfg : <<c, FALSE>> \in frames2 => <<c, FALSE>> \in m.frames \/ (m.dev[c].on /\ ~Gate(c, dev2[c]))
  OBVIOUS
<1>7. dev2 \in [Cfg -> Device]
  BY <1>3
<1> HIDE DEF dev2, frames2
<1>8. r \in Model /\ r.own = m.own /\ r.dev = dev2 /\ r.frames = frames2
  BY <1>2, <1>5, <1>7 DEF Model
<1>9. QED
  <2> HIDE DEF r
  <2>1. \A c \in Cfg : Gate(c, r.dev[c]) <=> Gate(c, dev2[c])
    BY <1>8
  <2>2. QED
    BY <1>1, <1>3, <1>6, <1>8, <2>1 DEF Spread


\* An identity that is trusted stays so, and no frame says otherwise; or nothing says otherwise if it is trusted
\* in the end.
Names(m, r) == r \in Model /\ \A c \in Cfg : r.dev[c].on = m.dev[c].on
Tells(m, r, c) == <<c, FALSE>> \in r.frames => <<c, FALSE>> \in m.frames
Rising(m, r) == Names(m, r) /\ \A c \in Cfg : Gate(c, m.dev[c]) => Gate(c, r.dev[c]) /\ Tells(m, r, c)
Level(m, r) == Names(m, r) /\ \A c \in Cfg : Gate(c, m.dev[c]) /\ Gate(c, r.dev[c]) => Tells(m, r, c)
Lasts(m, r) == \A c \in Cfg : m.dev[c].on /\ m.dev[c].state = "online" => r.dev[c].state = "online"

LEMMA RisingLevel ==
    ASSUME NEW m, NEW a, NEW r, Rising(m, a)
    PROVE  /\ Rising(a, r) => Rising(m, r)
           /\ Level(a, r) => Level(m, r)
           /\ Level(m, a)
BY DEF Rising, Level, Names, Tells

LEMMA Stays ==
    ASSUME NEW m \in Model
    PROVE  Rising(m, m) /\ Level(m, m) /\ Lasts(m, m)
BY DEF Rising, Level, Names, Tells, Lasts

LEMMA KnownRises ==
    ASSUME NEW m \in Model
    PROVE  Rising(m, Known(m)) /\ Lasts(m, Known(m)) /\ Known(m).own = m.own
<1>1. Spread(m, Known(m), "known", TRUE)
  BY FanKnown DEF Known
<1>2. QED
  BY <1>1 DEF Spread, Rising, Names, Tells, Lasts, Gate

LEMMA StampRises ==
    ASSUME NEW m \in Model
    PROVE  Rising(m, Stamp(m, TRUE)) /\ Lasts(m, Stamp(m, TRUE)) /\ Stamp(m, TRUE).own = m.own
<1>1. CASE OwnsApiIdentity(m)
  BY <1>1, Stays DEF Stamp
<1>2. CASE ~OwnsApiIdentity(m)
  <2>1. Spread(m, Stamp(m, TRUE), "live", TRUE)
    BY <1>2, FanLive DEF Stamp
  <2>2. QED
    BY <2>1 DEF Spread, Rising, Names, Tells, Lasts, Gate
<1>3. QED
  BY <1>1, <1>2

\* The announces take over before the stamp is dropped; nobody else drops it.
LEMMA EmittedIs ==
    ASSUME NEW m \in Model, NEW old \in Source
    PROVE  LET r == SourceEmitted(m, old, m.own) IN
             /\ r.own = m.own /\ Lasts(m, r) /\ Level(m, r)
             /\ m.own = "mdns" => Rising(m, r)
<1> DEFINE r == SourceEmitted(m, old, m.own)
           told == FanOut(m, "src", m.own)
<1>1. CASE old = m.own
  BY <1>1, Stays DEF SourceEmitted
<1>2. CASE old # m.own
  <2>1. Spread(m, told, "src", m.own) /\ told \in Model
    <3>1. m.own \in Source
      BY DEF Model
    <3>2. Spread(m, told, "src", m.own)
      BY <3>1, FanSrc
    <3>3. QED
      BY <3>2 DEF Spread
  <2>2. CASE OwnsApiIdentity(told)
    <3>1. r = FanOut(told, "live", FALSE)
      BY <1>2, <2>2 DEF SourceEmitted, Stamp
    <3>2. Spread(told, r, "live", FALSE)
      BY <2>1, <3>1, FanLive
    <3>3. m.own = "mdns"
      BY <2>1, <2>2 DEF OwnsApiIdentity, Spread
    <3> HIDE DEF r, told
    <3>4. Rising(m, told)
      BY <2>1, <3>3 DEF Spread, Rising, Names, Tells, Gate
    <3>5. \A c \in Cfg : Gate(c, told.dev[c]) /\ (told.dev[c].on => told.dev[c].src = "mdns") => Gate(c, r.dev[c])
      BY <3>2 DEF Spread, Gate
    <3>6. Rising(m, r)
      <4>1. r \in Model /\ \A c \in Cfg : r.dev[c].on = m.dev[c].on
        BY <2>1, <3>2 DEF Spread
      <4>2. \A c \in Cfg : Gate(c, m.dev[c]) => Gate(c, r.dev[c]) /\ (<<c, FALSE>> \in r.frames => <<c, FALSE>> \in m.frames)
        <5> SUFFICES ASSUME NEW c \in Cfg, Gate(c, m.dev[c])
                     PROVE  Gate(c, r.dev[c]) /\ (<<c, FALSE>> \in r.frames => <<c, FALSE>> \in m.frames)
          OBVIOUS
        <5>1. Gate(c, told.dev[c]) /\ (<<c, FALSE>> \in told.frames => <<c, FALSE>> \in m.frames)
          BY <3>4 DEF Rising, Tells
        <5>2. Gate(c, r.dev[c])
          BY <2>1, <3>3, <3>5, <5>1 DEF Spread
        <5>3. <<c, FALSE>> \in r.frames => <<c, FALSE>> \in told.frames
          BY <3>2, <5>2 DEF Spread
        <5>4. QED
          BY <5>1, <5>2, <5>3
      <4>3. QED
        BY <4>1, <4>2 DEF Rising, Names, Tells
    <3>7. r.own = m.own /\ Lasts(m, r)
      BY <2>1, <3>2 DEF Spread, Lasts
    <3>8. QED
      BY <3>6, <3>7, RisingLevel DEF r
  <2>3. CASE ~OwnsApiIdentity(told)
    <3>1. r = told
      BY <1>2, <2>3 DEF SourceEmitted
    <3>2. Level(m, told) /\ Lasts(m, told) /\ told.own = m.own
      BY <2>1 DEF Spread, Level, Names, Tells, Lasts
    <3>3. m.own = "mdns" => Rising(m, told)
      BY <2>1 DEF Spread, Rising, Names, Tells, Gate
    <3>4. QED
      BY <3>1, <3>2, <3>3
  <2>4. QED
    BY <2>2, <2>3
<1>3. QED
  BY <1>1, <1>2


LEMMA Reown ==
    ASSUME NEW m \in Model, NEW s \in Source
    PROVE  /\ [m EXCEPT !.own = s] \in Model /\ [m EXCEPT !.own = s].own = s
           /\ [m EXCEPT !.own = s].dev = m.dev /\ [m EXCEPT !.own = s].frames = m.frames
BY DEF Model

\* The same from a model whose entry has just been set.
LEMMA Reowned ==
    ASSUME NEW m \in Model, NEW s \in Source, NEW r
    PROVE  LET n == [m EXCEPT !.own = s] IN
             /\ Level(n, r) => Level(m, r)
             /\ Rising(n, r) => Rising(m, r)
             /\ Lasts(n, r) => Lasts(m, r)
<1> DEFINE n == [m EXCEPT !.own = s]
<1>1. n.dev = m.dev /\ n.frames = m.frames
  BY Reown
<1> HIDE DEF n
<1>2. (Level(n, r) => Level(m, r)) /\ (Rising(n, r) => Rising(m, r)) /\ (Lasts(n, r) => Lasts(m, r))
  BY <1>1 DEF Level, Rising, Lasts, Names, Tells
<1>3. QED
  BY <1>2 DEF n

\* One observation: it counts only if it outranks the ledger or revives the device.
LEMMA ObservedIs ==
    ASSUME NEW m \in Model, NEW st \in {"online", "offline"}, NEW s \in Source, NEW claim \in BOOLEAN
    PROVE  LET r == Observed(m, st, s, claim) IN
             /\ Level(m, r)
             /\ s = "mdns" => Rising(m, r)
             /\ st = "online" => Lasts(m, r)
             /\ r.own = m.own \/ (r.own = s /\ Bucket(m) # {})
             /\ m.own = "mdns" /\ s \in {"ping", "mqtt"} /\ st = "offline" => r = m
<1> DEFINE n == [m EXCEPT !.own = s]
           took == SourceEmitted(n, m.own, s)
           r == Observed(m, st, s, claim)
<1>1. n \in Model /\ n.own = s /\ m.own \in Source
  BY Reown DEF Model
<1>2. took.own = s /\ Lasts(n, took) /\ Level(n, took) /\ (s = "mdns" => Rising(n, took))
  BY <1>1, EmittedIs
<1>3. Lasts(m, took) /\ Level(m, took) /\ (s = "mdns" => Rising(m, took)) /\ took.own = s /\ took \in Model
  BY <1>2, Reowned DEF Level, Names
<1>4. CASE Bucket(m) = {} \/ (~Takeover(m, st) /\ Rank(s) < Rank(m.own))
  <2>1. r = m
    BY <1>4 DEF Observed
  <2>2. QED
    BY <2>1, Stays
<1>5. CASE ~(Bucket(m) = {} \/ (~Takeover(m, st) /\ Rank(s) < Rank(m.own))) /\ AllMatch(m, st)
  <2>1. r = IF claim THEN took ELSE m
    BY <1>5 DEF Observed
  <2>2. ~(m.own = "mdns" /\ s \in {"ping", "mqtt"} /\ st = "offline")
    BY <1>5 DEF Takeover, Rank
  <2> HIDE DEF r, took
  <2>3. QED
    BY <1>3, <1>5, <2>1, <2>2, Stays DEF r
<1>6. CASE ~(Bucket(m) = {} \/ (~Takeover(m, st) /\ Rank(s) < Rank(m.own))) /\ ~AllMatch(m, st)
  <2>1. r = FanOut(took, "state", st)
    BY <1>6 DEF Observed
  <2>2. ~(m.own = "mdns" /\ s \in {"ping", "mqtt"} /\ st = "offline")
    BY <1>6 DEF Takeover, Rank
  <2>3. Spread(took, r, "state", st)
    <3> HIDE DEF took
    <3>1. QED
      BY <1>3, <2>1, FanState
  <2> HIDE DEF r, took
  <2>4. Rising(took, r) /\ (st = "online" => Lasts(m, r)) /\ r.own = s
    BY <1>3, <2>3 DEF Spread, Rising, Lasts, Names, Tells, Gate, Level
  <2>5. Level(m, r)
    BY <1>3, <2>3 DEF Spread, Level, Names, Tells, Gate
  <2>6. s = "mdns" => Rising(m, r)
    BY <1>3, <2>4, RisingLevel
  <2>7. QED
    BY <1>6, <2>2, <2>4, <2>5, <2>6 DEF r
<1>7. QED
  BY <1>4, <1>5, <1>6

LEMMA ForgottenIs ==
    ASSUME NEW m \in Model
    PROVE  Level(m, Forgotten(m)) /\ Forgotten(m).own = "unknown" /\ Lasts(m, Forgotten(m))
<1> DEFINE n == [m EXCEPT !.own = "unknown"]
           r == SourceEmitted(n, m.own, "unknown")
<1>1. n \in Model /\ n.own = "unknown" /\ m.own \in Source /\ "unknown" \in Source
  BY Reown DEF Model, Source
<1>2. r.own = "unknown" /\ Lasts(n, r) /\ Level(n, r)
  BY <1>1, EmittedIs
<1>3. Level(m, r) /\ Lasts(m, r)
  BY <1>1, <1>2, Reowned
<1>4. QED
  BY <1>2, <1>3 DEF Forgotten

\* A withdrawal: the stamp takes over before the announces stop vouching.
LEMMA WithdrawnIs ==
    ASSUME NEW m \in Model
    PROVE  /\ Level(m, Withdrawn(m)) /\ Withdrawn(m).own # "mdns"
           /\ m.own # "mdns" => Withdrawn(m) = m
<1>1. CASE m.own # "mdns"
  BY <1>1, Stays DEF Withdrawn
<1>2. CASE m.own = "mdns"
  <2> DEFINE p == Parked(m)
             n == [p EXCEPT !.own = "unknown"]
             a == IF KnownApi(p) THEN Stamp(n, TRUE) ELSE n
             r == SourceEmitted(a, p.own, "unknown")
  <2>1. Rising(m, p) /\ p \in Model /\ p.own \in Source
    <3>1. CASE AllMatch(m, "offline")
      BY <3>1, Stays DEF Parked, Model
    <3>2. CASE ~AllMatch(m, "offline")
      <4>1. PICK v \in {"unknown", "offline"} : p = FanOut(m, "state", v)
        BY <3>2 DEF Parked
      <4>2. Spread(m, p, "state", v)
        BY <4>1, FanState
      <4> HIDE DEF p
      <4>3. QED
        BY <4>2 DEF Spread, Rising, Names, Tells, Gate, Model
    <3>3. QED
      BY <3>1, <3>2
  <2> HIDE DEF p
  <2>2. "unknown" \in Source
    BY DEF Source
  <2>3. n \in Model /\ n.own = "unknown"
    BY <2>1, <2>2, Reown
  <2>4. Rising(n, a) /\ a \in Model /\ a.own = "unknown"
    <3> HIDE DEF n
    <3>1. QED
      BY <2>3, Stays, StampRises DEF Rising, Names
  <2>5. Rising(p, a)
    BY <2>1, <2>2, <2>4, Reowned
  <2> HIDE DEF a
  <2>6. r.own = "unknown" /\ Level(a, r)
    BY <2>1, <2>4, EmittedIs
  <2> HIDE DEF r
  <2>7. Level(m, r)
    BY <2>1, <2>5, <2>6, RisingLevel
  <2>8. Withdrawn(m) = r
    BY <1>2 DEF Withdrawn, HandBack, p, n, a, r
  <2>9. QED
    BY <1>2, <2>6, <2>7, <2>8
<1>3. QED
  BY <1>1, <1>2


Outside ==
    /\ up \in BOOLEAN /\ heard \in [Svc -> {"live", "lapsed", "none"}] /\ broker \in BOOLEAN
    /\ icmp \in {"unprobed", "yes", "no"} /\ flight \in [Svc -> {"none", "asked", "raced"}]
    /\ ping \in {"none", "asked", "alive", "dead"} /\ call \in {"none", "out", "met"}
    /\ seen \in {"none", "fresh", "stale"}
MonitorInv == MonitorTypeOK /\ ClaimIsAnchored

Outweighs ==
    \A c \in Cfg : owner = "mdns" /\ dev[c].on /\ dev[c].state = "online" /\ dev'[c].on /\ dev'[c].state # "online"
                            => ~\E s \in Svc : heard'[s] = "live"
NoDip == \A c \in Cfg : (\A d \in Cfg : dev[d].on = dev'[d].on) /\ Gate(c, dev[c]) /\ Gate(c, dev'[c])
                        => <<c, FALSE>> \notin shown'
Owed == MonitorInv' /\ Outweighs /\ NoDip

LEMMA NowModel == MonitorInv => Now \in Model /\ Now.own = owner /\ Now.dev = dev /\ Now.frames = {} /\ Outside
BY DEF MonitorInv, MonitorTypeOK, Now, Model, Device, Outside

LEMMA Committed ==
    ASSUME NEW r \in Model, Commit(r), Outside'
    PROVE  MonitorTypeOK' /\ owner' = r.own /\ dev' = r.dev /\ shown' = r.frames
BY DEF Commit, Model, Device, MonitorTypeOK, Outside

LEMMA QuietCommits == Quiet => Commit(Now)
BY DEF Quiet, Commit, Now

\* A step whose configurations stay.
LEMMA StepOwes ==
    ASSUME MonitorInv, Outside', NEW r, Commit(r), Level(Now, r),
           r.own = "mdns" => Bucket(Now) # {} /\ \E s \in Svc : heard'[s] # "none",
           owner = "mdns" => Lasts(Now, r) \/ ~\E s \in Svc : heard'[s] = "live"
    PROVE  Owed
<1>1. r \in Model /\ \A c \in Cfg : r.dev[c].on = dev[c].on
  BY NowModel DEF Level, Names
<1>2. MonitorTypeOK' /\ owner' = r.own /\ dev' = r.dev /\ shown' = r.frames
  BY <1>1, Committed
<1>3. Bucket(Now)' = Bucket(Now)
  BY <1>1, <1>2 DEF Bucket, Now
<1>4. ClaimIsAnchored'
  BY <1>2, <1>3 DEF ClaimIsAnchored
<1>5. Outweighs
  BY <1>2, NowModel DEF Outweighs, Lasts
<1>6. NoDip
  <2>1. Now.dev = dev /\ Now.frames = {}
    BY NowModel
  <2>2. QED
    BY <1>2, <2>1 DEF NoDip, Level, Tells
<1>7. QED
  BY <1>2, <1>4, <1>5, <1>6 DEF Owed, MonitorInv

\* A step that takes a configuration's name or gives it one shows nothing of the gates.
LEMMA CatalogOwes ==
    ASSUME MonitorInv, Outside', UNCHANGED heard, NEW r \in Model, Commit(r), NEW c \in Cfg, r.dev[c].on # dev[c].on,
           r.own = "mdns" => (owner = "mdns" \/ \E s \in Svc : heard[s] # "none") /\ \E d \in Cfg : r.dev[d].on,
           \A d \in Cfg : d # c /\ dev[d].on /\ dev[d].state = "online" => r.dev[d].state = "online",
           dev[c].on => ~r.dev[c].on
    PROVE  Owed
<1>1. MonitorTypeOK' /\ owner' = r.own /\ dev' = r.dev /\ shown' = r.frames
  BY Committed
<1>2. ClaimIsAnchored'
  BY <1>1 DEF ClaimIsAnchored, MonitorInv, Bucket, Now
<1>3. Outweighs
  BY <1>1 DEF Outweighs
<1>4. NoDip
  BY <1>1 DEF NoDip
<1>5. QED
  BY <1>1, <1>2, <1>3, <1>4 DEF Owed, MonitorInv

LEMMA QuietOwes ==
    ASSUME MonitorInv, Outside', Quiet, \A s \in Svc : heard[s] # "none" => heard'[s] # "none"
    PROVE  Owed
<1>1. Commit(Now) /\ Now \in Model /\ Now.own = owner
  BY QuietCommits, NowModel
<1>2. Level(Now, Now) /\ Lasts(Now, Now)
  BY <1>1, Stays
<1>3. owner = "mdns" => Bucket(Now) # {} /\ \E s \in Svc : heard'[s] # "none"
  BY DEF MonitorInv, ClaimIsAnchored
<1>4. QED
  BY <1>1, <1>2, <1>3, StepOwes

\* What a service's record says: the api's claims the device for mDNS, behind its live PTR.
LEMMA AppliedIs ==
    ASSUME NEW m \in Model, NEW s \in Svc, NEW h
    PROVE  LET r == Applied(s, m, h) IN
             /\ Rising(m, r) /\ Lasts(m, r)
             /\ r.own = m.own \/ (r.own = "mdns" /\ Bucket(m) # {} /\ s = "api" /\ LivePtr(s, h))
<1> DEFINE r == Applied(s, m, h)
<1>1. CASE s = "api"
  <2> DEFINE a == IF LivePtr("api", h) THEN Observed(m, "online", "mdns", TRUE) ELSE m
  <2>1. r = Known(a)
    BY <1>1 DEF Applied, ServiceApplied
  <2>2. "mdns" \in Source
    BY DEF Source
  <2>3. /\ Rising(m, a) /\ Lasts(m, a) /\ a \in Model
        /\ a.own = m.own \/ (a.own = "mdns" /\ Bucket(m) # {} /\ LivePtr("api", h))
    <3>1. CASE LivePtr("api", h)
      BY <2>2, <3>1, ObservedIs DEF Rising, Names
    <3>2. CASE ~LivePtr("api", h)
      BY <3>2, Stays
    <3>3. QED
      BY <3>1, <3>2
  <2> HIDE DEF a
  <2>4. Rising(a, Known(a)) /\ Lasts(a, Known(a)) /\ Known(a).own = a.own
    BY <2>3, KnownRises
  <2>5. Rising(m, Known(a)) /\ Lasts(m, Known(a))
    BY <2>3, <2>4, RisingLevel DEF Lasts, Rising, Names
  <2>6. QED
    BY <1>1, <2>1, <2>3, <2>4, <2>5
<1>2. CASE s # "api"
  <2> DEFINE a == Known(m)
  <2>1. r = Stamp(a, TRUE)
    BY <1>2 DEF Applied
  <2>2. Rising(m, a) /\ Lasts(m, a) /\ a.own = m.own /\ a \in Model
    BY KnownRises DEF Rising, Names
  <2> HIDE DEF a
  <2>3. Rising(a, Stamp(a, TRUE)) /\ Lasts(a, Stamp(a, TRUE)) /\ Stamp(a, TRUE).own = a.own
    BY <2>2, StampRises
  <2>4. Rising(m, Stamp(a, TRUE)) /\ Lasts(m, Stamp(a, TRUE))
    BY <2>2, <2>3, RisingLevel DEF Lasts, Rising, Names
  <2>5. QED
    BY <2>1, <2>2, <2>3, <2>4
<1>3. QED
  BY <1>1, <1>2

LEMMA CacheOrResolveIs ==
    ASSUME NEW m \in Model, NEW s \in Svc, NEW h, CacheOrResolve(s, m, h), flight \in [Svc -> {"none", "asked", "raced"}]
    PROVE  \E r \in Model : /\ Commit(r) /\ Rising(m, r) /\ Lasts(m, r)
                            /\ r.own = m.own \/ (r.own = "mdns" /\ Bucket(m) # {} /\ s = "api" /\ LivePtr(s, h))
                            /\ flight' \in [Svc -> {"none", "asked", "raced"}]
<1> DEFINE a == Applied(s, m, h)
<1>1. /\ Rising(m, a) /\ Lasts(m, a) /\ a \in Model
      /\ a.own = m.own \/ (a.own = "mdns" /\ Bucket(m) # {} /\ s = "api" /\ LivePtr(s, h))
  BY AppliedIs DEF Rising, Names
<1> HIDE DEF a
<1>2. Commit(a) \/ Commit(m)
  BY DEF CacheOrResolve, a
<1>3. flight' \in [Svc -> {"none", "asked", "raced"}]
  BY DEF CacheOrResolve
<1>4. QED
  BY <1>1, <1>2, <1>3, Stays


LEMMA ObservedOwes ==
    ASSUME MonitorInv, Outside', UNCHANGED heard, NEW m \in Model, Level(Now, m), Lasts(Now, m), m.own = owner,
           Rising(Now, m),
           NEW st \in {"online", "offline"}, NEW s \in {"ping", "mqtt", "mdns"}, NEW claim \in BOOLEAN,
           s = "mdns" => st = "online" /\ \E v \in Svc : heard[v] = "live",
           st = "offline" => m = Now,
           Commit(Observed(m, st, s, claim))
    PROVE  Owed
<1> DEFINE r == Observed(m, st, s, claim)
<1>1. s \in Source
  BY DEF Source
<1>2. /\ Level(m, r)
      /\ st = "online" => Lasts(m, r)
      /\ r.own = m.own \/ (r.own = s /\ Bucket(m) # {})
      /\ m.own = "mdns" /\ s \in {"ping", "mqtt"} /\ st = "offline" => r = m
  BY <1>1, ObservedIs
<1> HIDE DEF r
<1>3. Level(Now, r)
  BY <1>2, RisingLevel
<1>4. owner = "mdns" => Lasts(Now, r)
  BY <1>2 DEF Lasts, Level, Names
<1>5. Bucket(m) = Bucket(Now)
  BY DEF Level, Names, Bucket
<1>6. r.own = "mdns" => Bucket(Now) # {} /\ \E v \in Svc : heard'[v] # "none"
  BY <1>2, <1>5 DEF MonitorInv, ClaimIsAnchored
<1>7. Commit(r)
  BY DEF r
<1>8. QED
  BY <1>3, <1>4, <1>6, <1>7, StepOwes

LEMMA RemovedOwes ==
    ASSUME MonitorInv, Outside', NEW gone, NEW h \in [Svc -> {"live", "lapsed", "none"}], Removed(gone, h)
    PROVE  Owed
<1>1. heard' = h /\ IF Bucket(Now) = {} \/ Anchored(h) THEN Quiet ELSE Commit(Withdrawn(Now))
  BY DEF Removed
<1>2. Now \in Model /\ Now.own = owner
  BY NowModel
<1>3. CASE Bucket(Now) = {} \/ Anchored(h)
  <2>1. Commit(Now) /\ Level(Now, Now) /\ Lasts(Now, Now)
    BY <1>1, <1>2, <1>3, QuietCommits, Stays
  <2>2. owner = "mdns" => Bucket(Now) # {} /\ \E s \in Svc : heard'[s] # "none"
    BY <1>1, <1>3 DEF MonitorInv, ClaimIsAnchored, Anchored, LivePtr
  <2>3. QED
    BY <1>2, <2>1, <2>2, StepOwes
<1>4. CASE ~(Bucket(Now) = {} \/ Anchored(h))
  <2> DEFINE r == Withdrawn(Now)
  <2>1. Commit(r) /\ Level(Now, r) /\ r.own # "mdns"
    BY <1>1, <1>2, <1>4, WithdrawnIs
  <2>2. ~\E s \in Svc : heard'[s] = "live"
    BY <1>1, <1>4 DEF Anchored, LivePtr
  <2> HIDE DEF r
  <2>3. QED
    BY <2>1, <2>2, StepOwes
<1>5. QED
  BY <1>3, <1>4

\* mDNS: announces, goodbyes, expiries and late resolves.
LEMMA MdnsOwes ==
    ASSUME MonitorInv, \/ Goodbye \/ HostResolved
                       \/ \E s \in Svc : Announce(s) \/ Lapse(s) \/ Purge(s) \/ Resolved(s)
    PROVE  Owed
<1>1. Now \in Model /\ Now.own = owner /\ Outside
  BY NowModel
<1>2. Rising(Now, Now) /\ Level(Now, Now) /\ Lasts(Now, Now)
  BY <1>1, Stays
<1>3. ASSUME NEW s \in Svc, Announce(s)
      PROVE  Owed
  <2>1. heard' = [heard EXCEPT ![s] = "live"] /\ heard'[s] = "live" /\ \A v \in Svc : heard[v] # "none" => heard'[v] # "none"
    BY <1>1, <1>3 DEF Announce, Outside
  <2>2. CASE Quiet /\ UNCHANGED flight
    <3>1. Outside'
      BY <1>1, <1>3, <2>1, <2>2 DEF Announce, Outside
    <3>2. QED
      BY <2>1, <2>2, <3>1, QuietOwes
  <2>3. CASE CacheOrResolve(s, Now, heard')
    <3>1. PICK r \in Model : /\ Commit(r) /\ Rising(Now, r) /\ Lasts(Now, r)
                             /\ r.own = Now.own \/ (r.own = "mdns" /\ Bucket(Now) # {})
                             /\ flight' \in [Svc -> {"none", "asked", "raced"}]
      BY <1>1, <2>3, CacheOrResolveIs DEF Outside
    <3>2. Outside'
      BY <1>1, <1>3, <2>1, <3>1 DEF Announce, Outside
    <3>3. Level(Now, r)
      BY <3>1, RisingLevel
    <3>4. r.own = "mdns" => Bucket(Now) # {} /\ \E v \in Svc : heard'[v] # "none"
      BY <1>1, <2>1, <3>1 DEF MonitorInv, ClaimIsAnchored
    <3>5. QED
      BY <3>1, <3>2, <3>3, <3>4, StepOwes
  <2>4. QED
    BY <1>3, <2>2, <2>3 DEF Announce
<1>4. ASSUME NEW s \in Svc, Lapse(s)
      PROVE  Owed
  <2>1. Outside' /\ Quiet /\ \A v \in Svc : heard[v] # "none" => heard'[v] # "none"
    BY <1>1, <1>4 DEF Lapse, Outside
  <2>2. QED
    BY <2>1, QuietOwes
<1>5. ASSUME NEW s \in Svc, Purge(s)
      PROVE  Owed
  <2> DEFINE h == [heard EXCEPT ![s] = "none"]
  <2>1. Removed({s}, h) /\ UNCHANGED <<up, broker, icmp, ping, call, seen>>
    BY <1>5 DEF Purge
  <2>2. h \in [Svc -> {"live", "lapsed", "none"}]
    BY <1>1 DEF Outside
  <2> HIDE DEF h
  <2>3. Outside'
    BY <1>1, <2>1, <2>2 DEF Removed, Outside
  <2>4. QED
    BY <2>1, <2>2, <2>3, RemovedOwes
<1>6. ASSUME NEW s \in Svc, Resolved(s)
      PROVE  Owed
  <2>1. Outside' /\ heard' = heard /\ (Quiet \/ Commit(Applied(s, Now, heard)))
    BY <1>1, <1>6 DEF Resolved, Outside
  <2>2. CASE Quiet
    BY <2>1, <2>2, QuietOwes
  <2>3. CASE Commit(Applied(s, Now, heard))
    <3> DEFINE r == Applied(s, Now, heard)
    <3>1. /\ Rising(Now, r) /\ Lasts(Now, r)
          /\ r.own = owner \/ (r.own = "mdns" /\ Bucket(Now) # {} /\ heard[s] = "live")
      BY <1>1, AppliedIs DEF LivePtr
    <3>2. Commit(r)
      BY <2>3
    <3> HIDE DEF r
    <3>3. Level(Now, r)
      BY <3>1, RisingLevel
    <3>4. r.own = "mdns" => Bucket(Now) # {} /\ \E v \in Svc : heard'[v] # "none"
      BY <2>1, <3>1 DEF MonitorInv, ClaimIsAnchored
    <3>5. QED
      BY <2>1, <3>1, <3>2, <3>3, <3>4, StepOwes
  <2>4. QED
    BY <2>1, <2>2, <2>3
<1>7. CASE Goodbye
  <2>1. PICK gone \in SUBSET {s \in Svc : heard[s] # "none"} :
            Removed(gone, [s \in Svc |-> IF s \in gone THEN "none" ELSE heard[s]])
    BY <1>7 DEF Goodbye
  <2> DEFINE h == [s \in Svc |-> IF s \in gone THEN "none" ELSE heard[s]]
  <2>2. h \in [Svc -> {"live", "lapsed", "none"}]
    BY <1>1 DEF Outside
  <2>3. Removed(gone, h)
    BY <2>1
  <2> HIDE DEF h
  <2>4. Outside'
    BY <1>1, <1>7, <2>2, <2>3 DEF Goodbye, Removed, Outside
  <2>5. QED
    BY <2>2, <2>3, <2>4, RemovedOwes
<1>8. CASE HostResolved
  <2>1. Outside' /\ heard' = heard
    BY <1>1, <1>8 DEF HostResolved, Outside
  <2>2. CASE Anchored(heard)
    <3>1. \E v \in Svc : heard[v] = "live"
      BY <2>2 DEF Anchored, LivePtr
    <3>2. Commit(Observed(Now, "online", "mdns", TRUE))
      BY <1>8, <2>2 DEF HostResolved
    <3>3. QED
      BY <1>1, <1>2, <2>1, <3>1, <3>2, ObservedOwes
  <2>3. CASE ~Anchored(heard)
    <3>1. Commit(Now)
      BY <1>8, <2>3 DEF HostResolved
    <3>2. owner = "mdns" => Bucket(Now) # {} /\ \E s \in Svc : heard'[s] # "none"
      BY <2>1 DEF MonitorInv, ClaimIsAnchored
    <3>3. QED
      BY <1>1, <1>2, <2>1, <3>1, <3>2, StepOwes
  <2>4. QED
    BY <2>2, <2>3
<1>9. QED
  BY <1>3, <1>4, <1>5, <1>6, <1>7, <1>8

\* Ping, the native API and MQTT: their answers come late.
LEMMA OthersOwe ==
    ASSUME MonitorInv, \/ IcmpProbed \/ PingStep \/ NoTarget \/ DialOut \/ DialMet \/ DialApplied
                       \/ MqttUp \/ MqttDown \/ MqttHeard \/ MqttSilent \/ MqttStale \/ Comes \/ Goes
    PROVE  Owed
<1>1. Now \in Model /\ Now.own = owner /\ Outside
  BY NowModel
<1>2. Rising(Now, Now) /\ Level(Now, Now) /\ Lasts(Now, Now)
  BY <1>1, Stays
<1>3. Outside' /\ heard' = heard
  BY <1>1 DEF IcmpProbed, PingStep, PingSent, PingBack, PingApplied, NoTarget, DialOut, DialMet, DialApplied,
         MqttUp, MqttDown, MqttHeard, MqttSilent, MqttStale, Comes, Goes, Outside
<1>4. CASE \/ IcmpProbed \/ PingSent \/ PingBack \/ DialOut \/ DialMet \/ MqttUp \/ MqttDown \/ MqttSilent
           \/ Comes \/ Goes
  <2>1. Quiet
    BY <1>4 DEF IcmpProbed, PingSent, PingBack, DialOut, DialMet, MqttUp, MqttDown, MqttSilent, Comes, Goes
  <2>2. QED
    BY <1>3, <2>1, QuietOwes
<1>5. CASE PingApplied \/ NoTarget
  <2>1. PICK st \in {"online", "offline"} : Commit(Observed(Now, st, "ping", FALSE))
    BY <1>5 DEF PingApplied, NoTarget
  <2>2. QED
    BY <1>1, <1>2, <1>3, <2>1, ObservedOwes
<1>6. CASE MqttHeard \/ MqttStale
  <2>1. PICK st \in {"online", "offline"} : Commit(Observed(Now, st, "mqtt", FALSE))
    BY <1>6 DEF MqttHeard, MqttStale
  <2>2. QED
    BY <1>1, <1>2, <1>3, <2>1, ObservedOwes
<1>7. CASE DialApplied
  <2> DEFINE k == Known(Now)
             t == Stamp(k, TRUE)
  <2>1. Commit(t) \/ Commit(Observed(t, "online", "ping", FALSE))
    BY <1>7 DEF DialApplied
  <2>2. Rising(Now, k) /\ Lasts(Now, k) /\ k.own = owner /\ k \in Model
    BY <1>1, KnownRises DEF Rising, Names
  <2> HIDE DEF k
  <2>3. Rising(k, t) /\ Lasts(k, t) /\ t.own = owner /\ t \in Model
    BY <2>2, StampRises DEF Rising, Names
  <2> HIDE DEF t
  <2>4. Rising(Now, t) /\ Level(Now, t) /\ Lasts(Now, t)
    BY <2>2, <2>3, RisingLevel DEF Lasts, Rising, Names
  <2>5. CASE Commit(t)
    <3>1. t.own = "mdns" => Bucket(Now) # {} /\ \E s \in Svc : heard'[s] # "none"
      BY <1>3, <2>3 DEF MonitorInv, ClaimIsAnchored
    <3>2. QED
      BY <1>3, <2>4, <2>5, <3>1, StepOwes
  <2>6. CASE Commit(Observed(t, "online", "ping", FALSE))
    BY <1>3, <2>3, <2>4, <2>6, ObservedOwes
  <2>7. QED
    BY <2>1, <2>5, <2>6
<1>8. QED
  BY <1>4, <1>5, <1>6, <1>7 DEF PingStep

\* The catalog: a configuration takes the name, leaves it or is deleted.
LEMMA CatalogStepOwes ==
    ASSUME MonitorInv, NEW c \in Cfg, TakesName(c) \/ Deleted(c) \/ LeavesName(c)
    PROVE  Owed
<1>1. Now \in Model /\ Now.own = owner /\ Now.dev = dev /\ Outside
  BY NowModel
<1>2. heard' = heard
  BY DEF TakesName, Deleted, LeavesName
<1>3. ASSUME NEW d \in Device
      PROVE  LET m == [Now EXCEPT !.dev[c] = d] IN m \in Model /\ m.own = owner /\ m.dev = [dev EXCEPT ![c] = d]
  BY <1>1, <1>3 DEF Model
<1>4. CASE TakesName(c)
  <2>1. PICK d \in Stored \cup Carried :
            LET m == [Now EXCEPT !.dev[c] = [d EXCEPT !.on = TRUE]] IN
              IF "api" \in Svc THEN CacheOrResolve("api", m, heard) ELSE Commit(m) /\ UNCHANGED flight
    BY <1>4 DEF TakesName
  <2> DEFINE e == [d EXCEPT !.on = TRUE]
             m == [Now EXCEPT !.dev[c] = e]
  <2>2. e \in Device /\ e.on = TRUE
    BY DEF Stored, Carried, Fresh, Device, Source
  <2> HIDE DEF e
  <2>3. m \in Model /\ m.own = owner /\ m.dev = [dev EXCEPT ![c] = e] /\ m.dev[c] = e
        /\ \A x \in Cfg : x # c => m.dev[x] = dev[x]
    BY <1>1, <1>3, <2>2 DEF Model
  <2>4. ~dev[c].on
    BY <1>4 DEF TakesName
  <2> HIDE DEF m
  <2>5. PICK r \in Model : /\ Commit(r) /\ (\A x \in Cfg : r.dev[x].on = m.dev[x].on) /\ Lasts(m, r)
                           /\ r.own = owner \/ (r.own = "mdns" /\ \E s \in Svc : heard[s] = "live")
                           /\ flight' \in [Svc -> {"none", "asked", "raced"}]
    <3>1. CASE "api" \in Svc
      <4>1. CacheOrResolve("api", m, heard)
        BY <2>1, <3>1 DEF m, e
      <4>2. PICK q \in Model : /\ Commit(q) /\ Rising(m, q) /\ Lasts(m, q)
                               /\ q.own = m.own \/ (q.own = "mdns" /\ LivePtr("api", heard))
                               /\ flight' \in [Svc -> {"none", "asked", "raced"}]
        BY <1>1, <2>3, <3>1, <4>1, CacheOrResolveIs DEF Outside
      <4>3. QED
        BY <2>3, <3>1, <4>2 DEF Rising, Names, LivePtr
    <3>2. CASE "api" \notin Svc
      <4>1. Commit(m) /\ UNCHANGED flight
        BY <2>1, <3>2 DEF m, e
      <4>2. QED
        BY <1>1, <2>3, <4>1, Stays DEF Outside
    <3>3. QED
      BY <3>1, <3>2
  <2>6. Outside'
    BY <1>1, <1>4, <2>5 DEF TakesName, Outside
  <2>7. r.dev[c].on # dev[c].on /\ r.dev[c].on
    BY <2>2, <2>3, <2>4, <2>5
  <2>8. \A x \in Cfg : x # c /\ dev[x].on /\ dev[x].state = "online" => r.dev[x].state = "online"
    BY <2>3, <2>5 DEF Lasts
  <2>9. r.own = "mdns" => (owner = "mdns" \/ \E s \in Svc : heard[s] # "none") /\ \E x \in Cfg : r.dev[x].on
    BY <2>5, <2>7
  <2>10. QED
    BY <1>2, <2>4, <2>5, <2>6, <2>7, <2>8, <2>9, CatalogOwes
<1>5. CASE Deleted(c) \/ LeavesName(c)
  <2> DEFINE m == [Now EXCEPT !.dev[c] = Fresh]
  <2>1. Fresh \in Device /\ Fresh.on = FALSE
    BY DEF Fresh, Device, Source
  <2>2. m \in Model /\ m.own = owner /\ m.dev[c] = Fresh
        /\ \A x \in Cfg : x # c => m.dev[x] = dev[x]
    BY <1>1, <1>3, <2>1 DEF Model
  <2>3. dev[c].on /\ Outside'
    BY <1>1, <1>5 DEF Deleted, LeavesName, Outside
  <2>4. Commit(Forgotten(m)) \/ (Commit(m) /\ Bucket(m) # {})
    BY <1>5 DEF Deleted, LeavesName
  <2> HIDE DEF m
  <2>5. PICK r \in Model : /\ Commit(r) /\ (\A x \in Cfg : r.dev[x].on = m.dev[x].on) /\ Lasts(m, r)
                           /\ r.own = "mdns" => owner = "mdns" /\ Bucket(m) # {}
    BY <2>2, <2>4, Stays, ForgottenIs DEF Level, Names
  <2>6. r.dev[c].on # dev[c].on /\ ~r.dev[c].on
    BY <2>1, <2>2, <2>3, <2>5
  <2>7. \A x \in Cfg : x # c /\ dev[x].on /\ dev[x].state = "online" => r.dev[x].state = "online"
    BY <2>2, <2>5 DEF Lasts
  <2>8. r.own = "mdns" => (owner = "mdns" \/ \E s \in Svc : heard[s] # "none") /\ \E x \in Cfg : r.dev[x].on
    BY <2>5 DEF Bucket
  <2>9. QED
    BY <1>2, <2>3, <2>5, <2>6, <2>7, <2>8, CatalogOwes
<1>6. QED
  BY <1>4, <1>5

LEMMA MonitorInitInv == MonitorInit => MonitorInv
<1> SUFFICES ASSUME MonitorInit PROVE MonitorInv
  OBVIOUS
<1>1. PICK k \in [Cfg -> BOOLEAN] : dev = [c \in Cfg |-> [Fresh EXCEPT !.on = k[c]]]
  BY DEF MonitorInit
<1>2. \A c \in Cfg : [Fresh EXCEPT !.on = k[c]] \in Device
  BY DEF Fresh, Device, Source
<1>3. dev \in [Cfg -> Device]
  BY <1>1, <1>2
<1>4. QED
  BY <1>3 DEF MonitorInit, MonitorInv, MonitorTypeOK, ClaimIsAnchored, Source, Device

LEMMA NextOwes ==
    ASSUME MonitorInv, MonitorNext
    PROVE  Owed
BY MdnsOwes, OthersOwe, CatalogStepOwes DEF MonitorNext

LEMMA StutterOwes ==
    ASSUME MonitorInv, UNCHANGED monVars
    PROVE  MonitorInv'
BY DEF monVars, MonitorInv, MonitorTypeOK, ClaimIsAnchored, Bucket, Now

\* Types and the claim's anchor are inductive: no step of a source, a cache or the scanner breaks them.
THEOREM MonitorInvHolds == MonitorSpec => []MonitorInv
BY MonitorInitInv, NextOwes, StutterOwes, PTL DEF MonitorSpec, Owed

\* mDNS owns a device only while a withdrawal is still to come that releases it, whatever cached or late answer
\* made the claim and whatever configurations came and went (shared.apply, mdns._apply_service_info).
THEOREM ClaimIsAnchoredHolds == MonitorSpec => []ClaimIsAnchored
BY MonitorInvHolds, PTL DEF MonitorInv

\* While an announce stands, nothing that ping or MQTT finds out late takes the device offline.
THEOREM AnnounceOutweighsHolds == MonitorSpec => AnnounceOutweighs
<1>1. MonitorInv /\ [MonitorNext]_monVars =>
        [\A c \in Cfg : /\ owner = "mdns" /\ dev[c].on /\ dev[c].state = "online"
                        /\ dev'[c].on /\ dev'[c].state # "online"
                        => ~\E s \in Svc : heard'[s] = "live"]_monVars
  BY NextOwes DEF Owed, Outweighs
<1>2. QED
  BY <1>1, MonitorInvHolds, PTL DEF MonitorSpec, AnnounceOutweighs

\* The stamp and the announces take over from each other with no frame between in which nobody vouches.
THEOREM GateNeverDipsHolds == MonitorSpec => GateNeverDips
<1>1. MonitorInv /\ [MonitorNext]_monVars =>
        [\A c \in Cfg : /\ \A d \in Cfg : dev[d].on = dev'[d].on
                        /\ Gate(c, dev[c]) /\ Gate(c, dev'[c])
                        => <<c, FALSE>> \notin shown']_monVars
  BY NextOwes DEF Owed, NoDip
<1>2. QED
  BY <1>1, MonitorInvHolds, PTL DEF MonitorSpec, GateNeverDips

-----------------------------------------------------------------------------
(* The streams. *)

HIDE PeeringAssumption

Kind == {"line", "stage", "result", "end", "terminate"}
Frame == Kind \X Int \X Int
JobRec == [stage : {0, 1, 2}, told : {0, 1, 2}, lines : Nat, ram : Nat, disk : Nat]

\* What fires follows what is stamped, and the output is in RAM, in the sidecar, or in both.
Coherent(r) ==
    /\ r.told = r.stage \/ (r.stage = Done /\ r.told = Queued)
    /\ r.ram = r.lines \/ (r.ram = 0 /\ r.stage = Done /\ r.disk = r.lines)
    /\ r.disk = 0 \/ (r.stage = Done /\ r.disk = r.lines)
WorkInv == work \in Seq(JobRec) /\ \A j \in Jobs : Coherent(work[j])

\* What a stream has in each phase.
ShapeInv ==
    /\ kind \in {"tail", "legacy", "panel", "state"} /\ lost \in BOOLEAN /\ ends \in BOOLEAN
    /\ got \in Seq(Frame) /\ seed \in Seq(Frame) /\ queue \in Seq(Frame)
    /\ phase \in {"off", "reading"} => got = <<>> /\ seed = <<>> /\ queue = <<>>
    /\ phase = "off" => ~ends
    /\ phase = "live" => seed = <<>>
    /\ phase = "seeding" => kind # "legacy"
    /\ ends => kind = "tail"
    /\ phase = "reading" => kind = "tail" /\ ends /\ work[watch].stage = Done /\ work[watch].ram = 0
    /\ watch \in Nat /\ (OneJob /\ phase # "off" => watch \in Jobs)

\* Only an End lets a follower go, and only a follower of one job.
NoEnd(t) == \A i \in DOMAIN t : t[i] # End
EndInv ==
    /\ NoEnd(got) /\ NoEnd(seed)
    /\ ~OneJob => NoEnd(queue)

\* The lines of job w in a sequence of frames, its first n and in their order.
LineOf(f, w) == f[1] = "line" /\ f[2] = w
Sorted(t, w, n) ==
    \A i \in DOMAIN t : LineOf(t[i], w) =>
       t[i][3] \in 1..n /\ \A k \in DOMAIN t : LineOf(t[k], w) /\ i < k => t[i][3] < t[k][3]
Whole(t, w, n) == \A v \in 1..n : \E i \in DOMAIN t : LineOf(t[i], w) /\ t[i][3] = v
RowsOf(t, l, w, n) == Sorted(t, w, n) /\ (~l => Whole(t, w, n))

\* The frames that let a follower go: the result, then the end.
Mark(f) == f[1] \in {"result", "end"}
Clean(t) == \A i \in DOMAIN t : ~Mark(t[i])
Led(t, w) == \A i \in DOMAIN t : t[i] = End => i > 1 /\ t[i - 1] \in {Result(w), End}
Closing(t, w) == t # <<>> /\ t[Len(t)] \in {Result(w), End}
\* They are at most four, those that may still come counted, so a queue that is full still has a line at its head.
Few(q, m) == \A i \in DOMAIN q : Mark(q[i]) => Len(q) - i + 1 + m <= 4
More == (IF work[watch].told = Done THEN 0 ELSE 2) + (IF ends /\ phase = "seeding" THEN 1 ELSE 0)

\* Behind the frames s, a buffer tells the n lines of job w, and lets go with m marks to come; none before w is over.
BGood(s, b, w, n, m, over) ==
    /\ RowsOf(s \o b.q, b.lost, w, n) /\ Led(s \o b.q, w) /\ Few(b.q, m)
    /\ over \/ Clean(s \o b.q)

FollowInv ==
    /\ OneJob /\ Listening =>
         BGood(got \o seed, Buffer, watch, work[watch].lines, More, work[watch].stage = Done)
    /\ phase = "ended" =>
         /\ OneJob /\ got # <<>> /\ got[Len(got)] = Result(watch) /\ work[watch].stage = Done
         /\ RowsOf(Told, lost, watch, work[watch].lines)
    /\ phase = "seeding" /\ ends => Closing(Told, watch)

StreamInv == WorkInv /\ ShapeInv /\ EndInv /\ FollowInv

LEMMA FrameFacts ==
    ASSUME NEW j \in Int, NEW n \in Int
    PROVE  /\ Line(j, n) \in Frame /\ Line(j, n)[1] = "line" /\ Line(j, n)[2] = j /\ Line(j, n)[3] = n
           /\ Stage(j, n) \in Frame /\ Stage(j, n)[1] = "stage" /\ Stage(j, n)[2] = j /\ Stage(j, n)[3] = n
           /\ Result(j) \in Frame /\ Result(j)[1] = "result" /\ End \in Frame /\ End[1] = "end"
           /\ Terminate \in Frame /\ Terminate[1] = "terminate"
BY DEF Line, Stage, Result, End, Terminate, Frame, Kind

LEMMA AppendFacts ==
    ASSUME NEW t \in Seq(Frame), NEW x \in Frame
    PROVE  /\ Append(t, x) \in Seq(Frame) /\ Len(t) \in Nat /\ DOMAIN t = 1..Len(t)
           /\ Len(Append(t, x)) = Len(t) + 1 /\ DOMAIN Append(t, x) = 1..(Len(t) + 1)
           /\ Append(t, x)[Len(t) + 1] = x /\ \A i \in 1..Len(t) : Append(t, x)[i] = t[i]
OBVIOUS

LEMMA AppendBehind ==
    ASSUME NEW s \in Seq(Frame), NEW q \in Seq(Frame), NEW x \in Frame
    PROVE  s \o Append(q, x) = Append(s \o q, x)
<1>1. Append(q, x) = q \o <<x>> /\ s \o q \in Seq(Frame)
  BY AppendIsConcat, ConcatProperties
<1>2. Append(s \o q, x) = (s \o q) \o <<x>>
  BY <1>1, AppendIsConcat
<1>3. <<x>> \in Seq(Frame)
  OBVIOUS
<1>4. QED
  BY <1>1, <1>2, <1>3, ConcatAssociative

LEMMA ConcatFacts ==
    ASSUME NEW s \in Seq(Frame), NEW q \in Seq(Frame)
    PROVE  /\ s \o q \in Seq(Frame) /\ Len(s) \in Nat /\ Len(q) \in Nat /\ Len(s \o q) = Len(s) + Len(q)
           /\ DOMAIN s = 1..Len(s) /\ DOMAIN q = 1..Len(q) /\ DOMAIN (s \o q) = 1..(Len(s) + Len(q))
           /\ \A i \in 1..(Len(s) + Len(q)) : (s \o q)[i] = IF i <= Len(s) THEN s[i] ELSE q[i - Len(s)]
<1>1. s \o q \in Seq(Frame) /\ Len(s \o q) = Len(s) + Len(q)
  BY ConcatProperties
<1>2. \A i \in 1..(Len(s) + Len(q)) : (s \o q)[i] = IF i <= Len(s) THEN s[i] ELSE q[i - Len(s)]
  BY ConcatProperties
<1>3. QED
  BY <1>1, <1>2

\* u is t without its p-th frame.
Without(t, u, p) ==
    /\ t \in Seq(Frame) /\ u \in Seq(Frame) /\ p \in 1..Len(t) /\ Len(t) \in Nat /\ DOMAIN t = 1..Len(t)
    /\ Len(u) = Len(t) - 1 /\ DOMAIN u = 1..(Len(t) - 1)
    /\ \A i \in 1..(Len(t) - 1) : u[i] = IF i < p THEN t[i] ELSE t[i + 1]

LEMMA DropBehind ==
    ASSUME NEW s \in Seq(Frame), NEW q \in Seq(Frame), q # <<>>
    PROVE  Without(s \o q, s \o Tail(q), Len(s) + 1) /\ (s \o q)[Len(s) + 1] = q[1] /\ Head(q) = q[1]
<1>1. /\ Tail(q) \in Seq(Frame) /\ Len(Tail(q)) = Len(q) - 1 /\ Head(q) = q[1]
      /\ Len(q) \in Nat /\ Len(q) > 0 /\ Len(s) \in Nat
      /\ \A i \in 1..(Len(q) - 1) : Tail(q)[i] = q[i + 1]
  OBVIOUS
<1> DEFINE t == s \o q
           u == s \o Tail(q)
<1>2. /\ t \in Seq(Frame) /\ Len(t) = Len(s) + Len(q) /\ DOMAIN t = 1..(Len(s) + Len(q))
      /\ \A i \in 1..(Len(s) + Len(q)) : t[i] = IF i <= Len(s) THEN s[i] ELSE q[i - Len(s)]
  BY ConcatFacts
<1> DEFINE r == Tail(q)
<1>0. r \in Seq(Frame) /\ Len(r) = Len(q) - 1 /\ \A i \in 1..(Len(q) - 1) : r[i] = q[i + 1]
  BY <1>1
<1> HIDE DEF r
<1>3. /\ s \o r \in Seq(Frame) /\ Len(s \o r) = Len(s) + Len(r) /\ DOMAIN (s \o r) = 1..(Len(s) + Len(r))
      /\ \A i \in 1..(Len(s) + Len(r)) : (s \o r)[i] = IF i <= Len(s) THEN s[i] ELSE r[i - Len(s)]
  BY <1>0, ConcatFacts
<1>4. u = s \o r
  BY DEF r
<1> HIDE DEF t, u
<1>5. Len(u) = Len(t) - 1 /\ DOMAIN u = 1..(Len(t) - 1)
  BY <1>0, <1>1, <1>2, <1>3, <1>4
<1>6. ASSUME NEW i \in 1..(Len(t) - 1) PROVE u[i] = IF i < Len(s) + 1 THEN t[i] ELSE t[i + 1]
  <2>1. i \in 1..(Len(s) + Len(r)) /\ i \in 1..(Len(s) + Len(q)) /\ i + 1 \in 1..(Len(s) + Len(q))
    BY <1>0, <1>1, <1>2
  <2>2. CASE i <= Len(s)
    BY <1>1, <1>2, <1>3, <1>4, <2>1, <2>2
  <2>3. CASE ~(i <= Len(s))
    <3>1. /\ i - Len(s) \in 1..(Len(q) - 1) /\ (i + 1) - Len(s) = (i - Len(s)) + 1
          /\ ~(i + 1 <= Len(s)) /\ ~(i < Len(s) + 1)
      BY <1>1, <1>2, <2>3
    <3>2. u[i] = r[i - Len(s)] /\ t[i + 1] = q[(i + 1) - Len(s)]
      BY <1>2, <1>3, <1>4, <2>1, <2>3, <3>1
    <3>3. QED
      BY <1>0, <3>1, <3>2
  <2>4. QED
    BY <2>2, <2>3
<1>7. t[Len(s) + 1] = q[1] /\ Len(s) + 1 \in 1..Len(t)
  BY <1>1, <1>2
<1>8. Without(t, u, Len(s) + 1)
  BY <1>1, <1>2, <1>3, <1>4, <1>5, <1>6, <1>7 DEF Without
<1>9. QED
  BY <1>1, <1>7, <1>8 DEF t, u

-----------------------------------------------------------------------------
(* Frames that come and go, and what is kept of a job's lines and its end. *)

LEMMA RowsAppend ==
    ASSUME NEW t \in Seq(Frame), NEW x \in Frame, NEW l, NEW w, NEW n \in Nat, RowsOf(t, l, w, n)
    PROVE  /\ ~LineOf(x, w) => RowsOf(Append(t, x), l, w, n)
           /\ LineOf(x, w) /\ x[3] = n + 1 => RowsOf(Append(t, x), l, w, n + 1)
<1> DEFINE u == Append(t, x)
<1>1. /\ Len(t) \in Nat /\ DOMAIN t = 1..Len(t) /\ DOMAIN u = 1..(Len(t) + 1)
      /\ u[Len(t) + 1] = x /\ \A i \in 1..Len(t) : u[i] = t[i]
  BY AppendFacts
<1> HIDE DEF u
<1>2. ASSUME ~LineOf(x, w) PROVE Sorted(u, w, n)
  BY <1>1, <1>2 DEF RowsOf, Sorted
<1>3. ASSUME LineOf(x, w), x[3] = n + 1 PROVE Sorted(u, w, n + 1)
  BY <1>1, <1>3 DEF RowsOf, Sorted
<1>4. ~l => Whole(u, w, n)
  BY <1>1 DEF RowsOf, Whole
<1>5. ASSUME LineOf(x, w), x[3] = n + 1, ~l PROVE Whole(u, w, n + 1)
  <2>1. SUFFICES ASSUME NEW v \in 1..(n + 1) PROVE \E i \in DOMAIN u : LineOf(u[i], w) /\ u[i][3] = v
    BY DEF Whole
  <2>2. CASE v \in 1..n
    BY <1>4, <1>5, <2>2 DEF Whole
  <2>3. CASE v = n + 1
    <3>1. Len(t) + 1 \in DOMAIN u
      BY <1>1
    <3>2. QED
      BY <1>1, <1>5, <2>3, <3>1
  <2>4. QED
    BY <2>2, <2>3
<1>6. QED
  BY <1>2, <1>3, <1>4, <1>5 DEF RowsOf, u

LEMMA RowsDrop ==
    ASSUME NEW t, NEW u, NEW p, Without(t, u, p), NEW l, NEW w, NEW n \in Nat, RowsOf(t, l, w, n)
    PROVE  RowsOf(u, TRUE, w, n) /\ (~LineOf(t[p], w) => RowsOf(u, l, w, n))
<1> DEFINE from(i) == IF i < p THEN i ELSE i + 1
<1>1. /\ Len(t) \in Nat /\ DOMAIN t = 1..Len(t) /\ DOMAIN u = 1..(Len(t) - 1) /\ p \in 1..Len(t)
      /\ \A i \in DOMAIN u : u[i] = t[from(i)] /\ from(i) \in DOMAIN t
      /\ \A i, k \in DOMAIN u : i < k => from(i) < from(k)
  BY DEF Without
<1>2. \A k \in DOMAIN t : k # p => \E i \in DOMAIN u : from(i) = k
  <2>1. SUFFICES ASSUME NEW k \in DOMAIN t, k # p PROVE \E i \in DOMAIN u : from(i) = k
    OBVIOUS
  <2>2. CASE k < p
    <3>1. k \in DOMAIN u /\ from(k) = k
      BY <1>1, <2>2
    <3>2. QED
      BY <3>1
  <2>3. CASE k > p
    <3>1. k - 1 \in DOMAIN u /\ from(k - 1) = k
      BY <1>1, <2>3
    <3>2. QED
      BY <3>1
  <2>4. QED
    BY <1>1, <2>1, <2>2, <2>3
<1> HIDE DEF from
<1>3. Sorted(u, w, n)
  BY <1>1 DEF RowsOf, Sorted
<1>4. ASSUME ~LineOf(t[p], w), ~l PROVE Whole(u, w, n)
  <2>1. SUFFICES ASSUME NEW v \in 1..n PROVE \E i \in DOMAIN u : LineOf(u[i], w) /\ u[i][3] = v
    BY DEF Whole
  <2>2. PICK k \in DOMAIN t : LineOf(t[k], w) /\ t[k][3] = v
    BY <1>4 DEF RowsOf, Whole
  <2>3. PICK i \in DOMAIN u : from(i) = k
    BY <1>2, <1>4, <2>2
  <2>4. QED
    BY <1>1, <2>2, <2>3
<1>5. QED
  BY <1>3, <1>4 DEF RowsOf

\* A line that a full queue drops.
LEMMA RowsLose ==
    ASSUME NEW t, NEW l, NEW w, NEW n \in Nat, RowsOf(t, l, w, n)
    PROVE  RowsOf(t, TRUE, w, n) /\ RowsOf(t, TRUE, w, n + 1)
BY DEF RowsOf, Sorted

LEMMA LedAppend ==
    ASSUME NEW t \in Seq(Frame), NEW x \in Frame, NEW w, Led(t, w), x = End => Closing(t, w)
    PROVE  Led(Append(t, x), w)
<1> DEFINE u == Append(t, x)
<1>1. /\ Len(t) \in Nat /\ DOMAIN t = 1..Len(t) /\ DOMAIN u = 1..(Len(t) + 1)
      /\ u[Len(t) + 1] = x /\ \A i \in 1..Len(t) : u[i] = t[i]
  BY AppendFacts
<1> HIDE DEF u
<1>2. t # <<>> => Len(t) > 0
  OBVIOUS
<1>3. ASSUME NEW i \in DOMAIN u, u[i] = End PROVE i > 1 /\ u[i - 1] \in {Result(w), End}
  <2>1. CASE i \in 1..Len(t)
    <3>1. i > 1 /\ t[i - 1] \in {Result(w), End}
      BY <1>1, <1>3, <2>1 DEF Led
    <3>2. i - 1 \in 1..Len(t)
      BY <1>1, <2>1, <3>1
    <3>3. QED
      BY <1>1, <3>1, <3>2
  <2>2. CASE i = Len(t) + 1
    <3>1. Closing(t, w)
      BY <1>1, <1>3, <2>2
    <3>2. Len(t) > 0 /\ i - 1 = Len(t) /\ Len(t) \in 1..Len(t)
      BY <1>1, <1>2, <2>2, <3>1 DEF Closing
    <3>3. QED
      BY <1>1, <3>1, <3>2, <2>2 DEF Closing
  <2>3. QED
    BY <1>1, <2>1, <2>2
<1>4. QED
  BY <1>3 DEF Led, u

LEMMA LedDrop ==
    ASSUME NEW t, NEW u, NEW p, Without(t, u, p), NEW w, Led(t, w), ~Mark(t[p])
    PROVE  Led(u, w)
<1>1. /\ Len(t) \in Nat /\ DOMAIN t = 1..Len(t) /\ DOMAIN u = 1..(Len(t) - 1) /\ p \in 1..Len(t)
      /\ \A i \in 1..(Len(t) - 1) : u[i] = IF i < p THEN t[i] ELSE t[i + 1]
  BY DEF Without
<1>2. t[p] \notin {Result(w), End}
  BY DEF Mark, Result, End
<1>3. ASSUME NEW i \in DOMAIN u, u[i] = End PROVE i > 1 /\ u[i - 1] \in {Result(w), End}
  <2>1. CASE i < p
    <3>1. i \in DOMAIN t /\ t[i] = End
      BY <1>1, <1>3, <2>1
    <3>2. i > 1 /\ t[i - 1] \in {Result(w), End}
      BY <3>1 DEF Led
    <3>3. i - 1 \in 1..(Len(t) - 1) /\ i - 1 < p
      BY <1>1, <2>1, <3>2
    <3>4. QED
      BY <1>1, <3>2, <3>3
  <2>2. CASE ~(i < p)
    <3>1. i + 1 \in DOMAIN t /\ t[i + 1] = End
      BY <1>1, <1>3, <2>2
    <3>2. t[(i + 1) - 1] \in {Result(w), End} /\ (i + 1) - 1 = i
      BY <1>1, <3>1 DEF Led
    <3>3. i # p
      BY <1>2, <3>2
    <3>4. i - 1 \in 1..(Len(t) - 1) /\ ~(i - 1 < p) /\ (i - 1) + 1 = i /\ i > 1
      BY <1>1, <2>2, <3>3
    <3>5. QED
      BY <1>1, <3>2, <3>4
  <2>3. QED
    BY <2>1, <2>2
<1>4. QED
  BY <1>3 DEF Led

LEMMA ClosingAppend ==
    ASSUME NEW t \in Seq(Frame), NEW w, NEW x \in Frame, x \in {Result(w), End}
    PROVE  Closing(Append(t, x), w)
<1>1. /\ Len(Append(t, x)) = Len(t) + 1 /\ Len(t) \in Nat /\ Append(t, x)[Len(t) + 1] = x
  BY AppendFacts
<1>2. Append(t, x) # <<>>
  BY AppendProperties
<1>3. QED
  BY <1>1, <1>2 DEF Closing

LEMMA FewAppend ==
    ASSUME NEW q \in Seq(Frame), NEW x \in Frame, NEW m \in 1..4, Few(q, m)
    PROVE  Few(Append(q, x), m - 1)
<1> DEFINE u == Append(q, x)
<1>1. /\ Len(q) \in Nat /\ DOMAIN q = 1..Len(q) /\ DOMAIN u = 1..(Len(q) + 1) /\ Len(u) = Len(q) + 1
      /\ u[Len(q) + 1] = x /\ \A i \in 1..Len(q) : u[i] = q[i]
  BY AppendFacts
<1> HIDE DEF u
<1>2. QED
  <2>1. ASSUME NEW i \in DOMAIN u, Mark(u[i]) PROVE Len(u) - i + 1 + (m - 1) <= 4
    <3>1. CASE i \in 1..Len(q)
      <4>1. Len(q) - i + 1 + m <= 4
        BY <1>1, <2>1, <3>1 DEF Few
      <4>2. QED
        BY <1>1, <3>1, <4>1
    <3>2. CASE i = Len(q) + 1
      BY <1>1, <3>2
    <3>3. QED
      BY <1>1, <3>1, <3>2
  <2>2. QED
    BY <2>1 DEF Few, u

LEMMA FewTail ==
    ASSUME NEW q \in Seq(Frame), q # <<>>, NEW m \in 0..4, Few(q, m)
    PROVE  Few(Tail(q), m)
<1> DEFINE u == Tail(q)
<1>1. /\ Len(q) \in Nat /\ DOMAIN q = 1..Len(q) /\ DOMAIN u = 1..(Len(q) - 1) /\ Len(u) = Len(q) - 1
      /\ \A i \in 1..(Len(q) - 1) : u[i] = q[i + 1]
  OBVIOUS
<1> HIDE DEF u
<1>2. ASSUME NEW i \in DOMAIN u, Mark(u[i]) PROVE Len(u) - i + 1 + m <= 4
  <2>1. i + 1 \in DOMAIN q /\ Mark(q[i + 1])
    BY <1>1, <1>2
  <2>2. Len(q) - (i + 1) + 1 + m <= 4
    BY <2>1 DEF Few
  <2>3. QED
    BY <1>1, <2>2
<1>3. QED
  BY <1>2 DEF Few, u

-----------------------------------------------------------------------------
(* The queue of a follower of one job. *)

Held == [q : Seq(Frame), lost : BOOLEAN]

LEMMA CleanParts ==
    ASSUME NEW s \in Seq(Frame), NEW q \in Seq(Frame), Clean(s \o q)
    PROVE  Clean(q)
<1>1. /\ Len(s) \in Nat /\ Len(q) \in Nat /\ DOMAIN q = 1..Len(q) /\ DOMAIN (s \o q) = 1..(Len(s) + Len(q))
      /\ \A i \in 1..(Len(s) + Len(q)) : (s \o q)[i] = IF i <= Len(s) THEN s[i] ELSE q[i - Len(s)]
  BY ConcatFacts
<1>2. ASSUME NEW i \in 1..Len(q) PROVE ~Mark(q[i])
  <2>1. Len(s) + i \in 1..(Len(s) + Len(q)) /\ ~(Len(s) + i <= Len(s)) /\ (Len(s) + i) - Len(s) = i
    BY <1>1
  <2>2. (s \o q)[Len(s) + i] = q[i] /\ Len(s) + i \in DOMAIN (s \o q)
    BY <1>1, <2>1
  <2>3. QED
    BY <2>2 DEF Clean
<1>3. QED
  BY <1>1, <1>2 DEF Clean

LEMMA CleanAppend ==
    ASSUME NEW t \in Seq(Frame), NEW x \in Frame, Clean(t), ~Mark(x)
    PROVE  Clean(Append(t, x))
BY AppendFacts DEF Clean

LEMMA HeldAppend ==
    ASSUME NEW b \in Held, NEW x \in Frame
    PROVE  LET c == [b EXCEPT !.q = Append(@, x)] IN
             c \in Held /\ c.q = Append(b.q, x) /\ c.lost = b.lost
BY AppendFacts DEF Held

LEMMA PushFacts ==
    ASSUME NEW b \in Held, NEW x \in Frame
    PROVE  /\ Push(b, x) \in Held
           /\ \/ Push(b, x).q = b.q /\ Push(b, x).lost = TRUE
              \/ Push(b, x).q = Append(b.q, x) /\ Push(b, x).lost = b.lost
<1>1. CASE Full(b)
  <2>1. Push(b, x) = [b EXCEPT !.lost = TRUE]
    BY <1>1 DEF Push
  <2>2. QED
    BY <2>1 DEF Held
<1>2. CASE ~Full(b)
  <2>1. Push(b, x) = [b EXCEPT !.q = Append(@, x)]
    BY <1>2 DEF Push
  <2>2. QED
    BY <2>1, HeldAppend
<1>3. QED
  BY <1>1, <1>2

LEMMA PriorityFacts ==
    ASSUME NEW b \in Held, NEW x \in Frame
    PROVE  /\ PushPriority(b, x) \in Held
           /\ \/ /\ b.q # <<>> /\ Len(b.q) >= 4
                 /\ PushPriority(b, x).q = Append(Tail(b.q), x) /\ PushPriority(b, x).lost = TRUE
              \/ PushPriority(b, x).q = Append(b.q, x) /\ PushPriority(b, x).lost = b.lost
<1>1. CASE Full(b)
  <2>1. PushPriority(b, x) = [q |-> Append(Tail(b.q), x), lost |-> TRUE]
    BY <1>1 DEF PushPriority
  <2>2. b.q \in Seq(Frame) /\ Len(b.q) >= 4
    BY <1>1, StreamAssumption DEF Full, Held
  <2>3. b.q # <<>> /\ Tail(b.q) \in Seq(Frame)
    BY <2>2
  <2>4. Append(Tail(b.q), x) \in Seq(Frame)
    BY <2>3, AppendFacts
  <2>5. QED
    <3>1. PushPriority(b, x) \in Held
      BY <2>1, <2>4 DEF Held
    <3>2. PushPriority(b, x).q = Append(Tail(b.q), x) /\ PushPriority(b, x).lost = TRUE
      BY <2>1
    <3>3. QED
      BY <2>2, <2>3, <3>1, <3>2
<1>2. CASE ~Full(b)
  <2>1. PushPriority(b, x) = [b EXCEPT !.q = Append(@, x)]
    BY <1>2 DEF PushPriority
  <2>2. QED
    BY <2>1, HeldAppend
<1>3. QED
  BY <1>1, <1>2

\* The next line of the job is told, or lost.
LEMMA PushLine ==
    ASSUME NEW s \in Seq(Frame), NEW b \in Held, NEW w \in Int, NEW n \in Nat, NEW m, NEW over,
           BGood(s, b, w, n, m, FALSE)
    PROVE  BGood(s, Push(b, Line(w, n + 1)), w, n + 1, m, over)
<1> DEFINE x == Line(w, n + 1)
           c == Push(b, x)
           t == s \o b.q
<1>0. x \in Frame /\ LineOf(x, w) /\ x[3] = n + 1 /\ ~Mark(x) /\ x # End
  <2>1. x \in Frame /\ x[1] = "line" /\ x[2] = w /\ x[3] = n + 1
    BY FrameFacts
  <2>2. End[1] = "end"
    BY DEF End
  <2>3. QED
    BY <2>1, <2>2 DEF LineOf, Mark
<1>1. b.q \in Seq(Frame) /\ t \in Seq(Frame) /\ RowsOf(t, b.lost, w, n) /\ Led(t, w) /\ Clean(t)
  BY ConcatFacts DEF BGood, Held
<1>2. c \in Held /\ ((c.q = b.q /\ c.lost = TRUE) \/ (c.q = Append(b.q, x) /\ c.lost = b.lost))
  <2> HIDE DEF x
  <2>1. /\ Push(b, x) \in Held
        /\ \/ Push(b, x).q = b.q /\ Push(b, x).lost = TRUE
           \/ Push(b, x).q = Append(b.q, x) /\ Push(b, x).lost = b.lost
    BY <1>0, PushFacts
  <2>2. QED
    BY <2>1 DEF c
<1>3. Few(b.q, m)
  BY DEF BGood
<1>4. s \o Append(b.q, x) = Append(t, x)
  BY <1>0, <1>1, AppendBehind
<1> HIDE DEF x, c, t
<1>5. CASE c.q = b.q /\ c.lost = TRUE
  <2>1. RowsOf(t, TRUE, w, n + 1)
    BY <1>1, RowsLose
  <2>2. s \o c.q = t
    BY <1>5 DEF t
  <2>3. BGood(s, c, w, n + 1, m, over)
    BY <1>1, <1>3, <1>5, <2>1, <2>2 DEF BGood
  <2>4. QED
    BY <2>3 DEF c, x
<1>6. CASE c.q = Append(b.q, x) /\ c.lost = b.lost
  <2>1. RowsOf(Append(t, x), b.lost, w, n + 1)
    BY <1>0, <1>1, RowsAppend
  <2>2. Led(Append(t, x), w)
    BY <1>0, <1>1, LedAppend
  <2>3. Clean(Append(t, x))
    BY <1>0, <1>1, CleanAppend
  <2>4. Clean(b.q)
    BY <1>1, CleanParts DEF t
  <2>5. Clean(Append(b.q, x))
    BY <1>0, <1>1, <2>4, CleanAppend
  <2>6. Few(Append(b.q, x), m)
    BY <2>5 DEF Few, Clean
  <2>7. s \o c.q = Append(t, x)
    BY <1>4, <1>6
  <2>8. BGood(s, c, w, n + 1, m, over)
    BY <1>6, <2>1, <2>2, <2>3, <2>6, <2>7 DEF BGood
  <2>9. QED
    BY <2>8 DEF c, x
<1>7. QED
  BY <1>2, <1>5, <1>6

\* A mark is told whatever the queue holds: what it evicts is none.
LEMMA PriorityMark ==
    ASSUME NEW s \in Seq(Frame), NEW b \in Held, NEW w \in Int, NEW n \in Nat, NEW m \in 1..4, NEW over,
           BGood(s, b, w, n, m, over), NEW x \in {Result(w), End}, x = End => Closing(s \o b.q, w)
    PROVE  /\ BGood(s, PushPriority(b, x), w, n, m - 1, TRUE) /\ Closing(s \o PushPriority(b, x).q, w)
           /\ PushPriority(b, x) \in Held
<1> DEFINE c == PushPriority(b, x)
           t == s \o b.q
<1>0. x \in Frame /\ ~LineOf(x, w)
  BY FrameFacts DEF LineOf
<1>1. b.q \in Seq(Frame) /\ t \in Seq(Frame) /\ RowsOf(t, b.lost, w, n) /\ Led(t, w) /\ Few(b.q, m)
  BY ConcatFacts DEF BGood, Held
<1>2. /\ c \in Held
      /\ \/ b.q # <<>> /\ Len(b.q) >= 4 /\ c.q = Append(Tail(b.q), x) /\ c.lost = TRUE
         \/ c.q = Append(b.q, x) /\ c.lost = b.lost
  BY <1>0, PriorityFacts
<1>3. x = End => Closing(t, w)
  OBVIOUS
<1> HIDE DEF c
<1>4. CASE c.q = Append(b.q, x) /\ c.lost = b.lost
  <2>1. s \o c.q = Append(t, x)
    BY <1>0, <1>1, <1>4, AppendBehind
  <2> HIDE DEF t
  <2>2. RowsOf(Append(t, x), b.lost, w, n)
    BY <1>0, <1>1, RowsAppend
  <2>3. Led(Append(t, x), w)
    BY <1>0, <1>1, <1>3, LedAppend
  <2>4. Closing(Append(t, x), w)
    BY <1>0, <1>1, ClosingAppend
  <2>5. Few(c.q, m - 1)
    BY <1>0, <1>1, <1>4, FewAppend
  <2>6. QED
    BY <1>2, <1>4, <2>1, <2>2, <2>3, <2>4, <2>5 DEF BGood, c
<1>5. CASE b.q # <<>> /\ Len(b.q) >= 4 /\ c.q = Append(Tail(b.q), x) /\ c.lost = TRUE
  <2> DEFINE p == Len(s) + 1
             r == Tail(b.q)
             u == s \o r
  <2>1. Without(t, u, p) /\ t[p] = b.q[1]
    BY <1>1, <1>5, DropBehind
  <2>2. r \in Seq(Frame) /\ Len(r) = Len(b.q) - 1 /\ \A i \in 1..Len(r) : r[i] = b.q[i + 1]
    BY <1>1, <1>5
  <2>3. ~Mark(b.q[1])
    <3>1. 1 \in DOMAIN b.q /\ Len(b.q) \in Nat
      BY <1>1, <1>5
    <3>2. QED
      BY <1>1, <1>5, <3>1 DEF Few
  <2>4. Few(r, m)
    BY <1>1, <1>5, FewTail
  <2>5. s \o c.q = Append(u, x) /\ u \in Seq(Frame)
    <3> HIDE DEF r
    <3>1. s \o Append(r, x) = Append(s \o r, x) /\ s \o r \in Seq(Frame)
      BY <1>0, <2>2, AppendBehind, ConcatFacts
    <3>2. c.q = Append(r, x)
      BY <1>5 DEF r
    <3>3. QED
      BY <3>1, <3>2
  <2>6. ASSUME Closing(t, w) PROVE Closing(u, w)
    <3>1. /\ Len(t) = Len(s) + Len(b.q) /\ Len(u) = Len(t) - 1 /\ Len(s) \in Nat /\ Len(b.q) \in Nat
          /\ \A i \in 1..(Len(t) - 1) : u[i] = IF i < p THEN t[i] ELSE t[i + 1]
      BY <1>1, <2>1, ConcatFacts DEF Without
    <3>2. Len(u) \in 1..(Len(t) - 1) /\ ~(Len(u) < p) /\ Len(u) + 1 = Len(t) /\ Len(u) > 0
      BY <1>5, <3>1
    <3>3. u[Len(u)] = t[Len(t)]
      BY <3>1, <3>2
    <3>4. u # <<>>
      <4> HIDE DEF u
      <4>1. QED
        BY <3>2
    <3>5. QED
      BY <2>6, <3>3, <3>4 DEF Closing
  <2> HIDE DEF t, u, p, r
  <2>7. RowsOf(u, TRUE, w, n)
    BY <1>1, <2>1, RowsDrop
  <2>8. Led(u, w)
    BY <1>1, <2>1, <2>3, LedDrop
  <2>9. RowsOf(Append(u, x), TRUE, w, n)
    BY <1>0, <2>5, <2>7, RowsAppend
  <2>10. Led(Append(u, x), w)
    BY <1>0, <1>3, <2>5, <2>6, <2>8, LedAppend
  <2>11. Closing(Append(u, x), w)
    BY <1>0, <2>5, ClosingAppend
  <2>12. Few(c.q, m - 1)
    BY <1>0, <1>5, <2>2, <2>4, FewAppend DEF r
  <2>13. QED
    BY <1>2, <1>5, <2>5, <2>9, <2>10, <2>11, <2>12 DEF BGood, c
<1>6. QED
  BY <1>2, <1>4, <1>5

\* What lets a follower go is there only when its job is over.
LEMMA ClosingIsOver ==
    ASSUME NEW s \in Seq(Frame), NEW b \in Held, NEW w, NEW n, NEW m, NEW over,
           BGood(s, b, w, n, m, over), Closing(s \o b.q, w)
    PROVE  over
<1> DEFINE t == s \o b.q
<1>1. t \in Seq(Frame)
  BY ConcatFacts DEF Held
<1>2. t # <<>> /\ t[Len(t)] \in {Result(w), End}
  BY DEF Closing
<1> HIDE DEF t
<1>3. Len(t) \in DOMAIN t
  BY <1>1, <1>2
<1>4. Mark(Result(w)) /\ Mark(End)
  BY DEF Mark, Result, End
<1>5. ~Clean(t)
  BY <1>2, <1>3, <1>4 DEF Clean
<1>6. QED
  BY <1>5 DEF BGood, t

-----------------------------------------------------------------------------
(* What fires reaches the queue. *)

LEMMA LetGoGood ==
    ASSUME NEW s \in Seq(Frame), NEW b \in Held, NEW w \in Int, NEW n \in Nat, NEW m \in 2..4, NEW over,
           BGood(s, b, w, n, m, over)
    PROVE  /\ LetGo(b, w) \in Held /\ Closing(s \o LetGo(b, w).q, w)
           /\ BGood(s, LetGo(b, w), w, n, m - 2, TRUE)
<1> DEFINE c == PushPriority(b, Result(w))
<1>1. m \in 1..4 /\ m - 1 \in 1..4 /\ (m - 1) - 1 = m - 2
  OBVIOUS
<1>2. Result(w) # End
  BY DEF Result, End
<1>3. BGood(s, c, w, n, m - 1, TRUE) /\ Closing(s \o c.q, w) /\ c \in Held
  BY <1>1, <1>2, PriorityMark
<1> HIDE DEF c
<1> DEFINE d == PushPriority(c, End)
<1>4. BGood(s, d, w, n, (m - 1) - 1, TRUE) /\ Closing(s \o d.q, w) /\ d \in Held
  BY <1>1, <1>3, PriorityMark
<1>5. d = LetGo(b, w)
  BY DEF LetGo, c
<1>6. QED
  BY <1>1, <1>4, <1>5

LEMMA NoEndFacts ==
    ASSUME NEW q \in Seq(Frame), NoEnd(q)
    PROVE  /\ \A x \in Frame : x # End => NoEnd(Append(q, x))
           /\ q # <<>> => NoEnd(Tail(q))
<1>1. ASSUME NEW x \in Frame, x # End PROVE NoEnd(Append(q, x))
  BY <1>1, AppendFacts DEF NoEnd
<1>2. ASSUME q # <<>> PROVE NoEnd(Tail(q))
  <2>1. /\ DOMAIN q = 1..Len(q) /\ Len(q) \in Nat /\ DOMAIN Tail(q) = 1..(Len(q) - 1)
        /\ \A i \in 1..(Len(q) - 1) : Tail(q)[i] = q[i + 1]
    BY <1>2
  <2>2. \A i \in 1..(Len(q) - 1) : i + 1 \in 1..Len(q)
    BY <2>1
  <2>3. QED
    BY <2>1, <2>2 DEF NoEnd
<1>3. QED
  BY <1>1, <1>2

LEMMA BufferFacts ==
    ASSUME ShapeInv
    PROVE  Buffer \in Held /\ Buffer.q = queue /\ Buffer.lost = lost
BY DEF ShapeInv, Buffer, Held

LEMMA NoEndPushed ==
    ASSUME NEW b \in Held, NEW x \in Frame, x # End, NoEnd(b.q)
    PROVE  NoEnd(Push(b, x).q) /\ NoEnd(PushPriority(b, x).q)
<1>1. b.q \in Seq(Frame)
  BY DEF Held
<1>2. Push(b, x).q = b.q \/ Push(b, x).q = Append(b.q, x)
  BY PushFacts
<1>3. NoEnd(Push(b, x).q)
  BY <1>1, <1>2, NoEndFacts
<1>4. \/ b.q # <<>> /\ PushPriority(b, x).q = Append(Tail(b.q), x)
      \/ PushPriority(b, x).q = Append(b.q, x)
  BY PriorityFacts
<1>5. b.q # <<>> => Tail(b.q) \in Seq(Frame) /\ NoEnd(Tail(b.q))
  BY <1>1, NoEndFacts
<1>6. NoEnd(PushPriority(b, x).q)
  BY <1>1, <1>4, <1>5, NoEndFacts
<1>7. QED
  BY <1>3, <1>6

LEMMA OrTerminateFacts ==
    ASSUME NEW b \in Held, NEW x \in Frame, x # End
    PROVE  /\ PushOrTerminate(b, x) \in Held
           /\ NoEnd(b.q) => NoEnd(PushOrTerminate(b, x).q)
           /\ \/ PushOrTerminate(b, x).q = Append(b.q, x)
              \/ PushOrTerminate(b, x).q = Append(Tail(b.q), Terminate) /\ b.q # <<>>
              \/ PushOrTerminate(b, x).q = Append(b.q, Terminate)
<1>0. Terminate \in Frame /\ Terminate # End /\ b.q \in Seq(Frame)
  BY FrameFacts DEF Terminate, End, Held
<1>1. CASE Full(b)
  <2>1. PushOrTerminate(b, x) = PushPriority(b, Terminate)
    BY <1>1 DEF PushOrTerminate
  <2>2. QED
    BY <1>0, <2>1, PriorityFacts, NoEndPushed
<1>2. CASE ~Full(b)
  <2>1. PushOrTerminate(b, x) = [b EXCEPT !.q = Append(@, x)]
    BY <1>2 DEF PushOrTerminate
  <2>2. PushOrTerminate(b, x) \in Held /\ PushOrTerminate(b, x).q = Append(b.q, x)
    BY <2>1, HeldAppend
  <2>3. QED
    BY <1>0, <2>2, NoEndFacts
<1>3. QED
  BY <1>1, <1>2

\* A line or a stage, as it fires.
Item == {x \in Frame : x[1] \in {"line", "stage"}}
Ignored(x) == x[2] # watch \/ (x[1] = "stage" /\ x[3] # Done)

LEMMA HandledOne ==
    ASSUME OneJob, NEW x \in Item
    PROVE  /\ Ignored(x) => Handled(x) = Buffer
           /\ x[1] = "line" /\ x[2] = watch => Handled(x) = Push(Buffer, x)
           /\ x[1] = "stage" /\ x[2] = watch /\ x[3] = Done => Handled(x) = LetGo(Buffer, watch)
BY DEF OneJob, Handled, Ignored, Item

LEMMA HandledAll ==
    ASSUME NEW x \in Item
    PROVE  /\ kind = "state" => Handled(x) = PushOrTerminate(Buffer, x)
           /\ kind = "panel" => Handled(x) \in {Push(Buffer, x), PushPriority(Buffer, x)}
BY DEF Handled, OneJob

LEMMA LetGoHeld ==
    ASSUME NEW b \in Held, NEW w \in Int
    PROVE  LetGo(b, w) \in Held
BY PriorityFacts, FrameFacts DEF LetGo

LEMMA HandledShape ==
    ASSUME ShapeInv, EndInv, NEW x \in Item
    PROVE  Handled(x) \in Held /\ (~OneJob => NoEnd(Handled(x).q))
<1>0. Buffer \in Held /\ Buffer.q = queue /\ x \in Frame /\ x # End /\ watch \in Int
  BY BufferFacts DEF Item, End, ShapeInv
<1>1. CASE OneJob
  <2>1. Handled(x) \in {Buffer, Push(Buffer, x), LetGo(Buffer, watch)}
    BY <1>1, HandledOne DEF Ignored, Item
  <2>2. QED
    BY <1>0, <1>1, <2>1, PushFacts, LetGoHeld
<1>2. CASE ~OneJob
  <2>1. kind \in {"state", "panel"} /\ NoEnd(Buffer.q)
    BY <1>0, <1>2 DEF OneJob, ShapeInv, EndInv
  <2>2. QED
    BY <1>0, <2>1, HandledAll, OrTerminateFacts, PushFacts, PriorityFacts, NoEndPushed
<1>3. QED
  BY <1>1, <1>2

LEMMA FiresShape ==
    ASSUME ShapeInv, EndInv, NEW x \in Item, Fires(x)
    PROVE  /\ queue' \in Seq(Frame) /\ lost' \in BOOLEAN /\ (~OneJob => NoEnd(queue'))
           /\ ~Listening => UNCHANGED <<queue, lost>>
           /\ Listening => queue' = Handled(x).q /\ lost' = Handled(x).lost
<1>1. Buffer \in Held /\ Buffer.q = queue /\ Buffer.lost = lost
  BY BufferFacts
<1>2. Handled(x) \in Held /\ (~OneJob => NoEnd(Handled(x).q))
  BY HandledShape
<1>3. CASE Listening
  BY <1>2, <1>3 DEF Fires, Hold, Held
<1>4. CASE ~Listening
  BY <1>1, <1>4 DEF Fires, Hold, Held, EndInv
<1>5. QED
  BY <1>3, <1>4

-----------------------------------------------------------------------------
(* A step of a job, and the stream that follows one. *)

\* What a step does to the job that is watched: nothing that counts, its next line, or its end.
Same == /\ work'[watch].lines = work[watch].lines /\ (work[watch].stage = Done => work'[watch].stage = Done)
        /\ (work'[watch].told = Done <=> work[watch].told = Done)
Moved(x) ==
    \/ Ignored(x) /\ Same
    \/ /\ x = Line(watch, work[watch].lines + 1) /\ work'[watch].lines = work[watch].lines + 1
       /\ work[watch].stage # Done /\ (work'[watch].told = Done <=> work[watch].told = Done)
    \/ /\ x = Stage(watch, Done) /\ work'[watch].lines = work[watch].lines
       /\ work[watch].told # Done /\ work'[watch].told = Done /\ work'[watch].stage = Done
Follows == OneJob /\ phase # "off"

LEMMA FrameKept ==
    ASSUME UNCHANGED followVars
    PROVE  /\ kind' = kind /\ watch' = watch /\ phase' = phase /\ seed' = seed /\ ends' = ends /\ got' = got
           /\ (OneJob' <=> OneJob) /\ (Listening' <=> Listening) /\ (Follows' <=> Follows)
BY DEF followVars, OneJob, Listening, Follows

\* A step that is over for a follower who has left the queue alone.
LEMMA FollowEnded ==
    ASSUME FollowInv, UNCHANGED followVars, UNCHANGED <<queue, lost>>, ~Listening,
           phase = "ended" => work'[watch].lines = work[watch].lines /\ work'[watch].stage = Done
    PROVE  FollowInv'
<1>1. /\ kind' = kind /\ watch' = watch /\ phase' = phase /\ got' = got /\ (OneJob' <=> OneJob) /\ ~Listening'
      /\ lost' = lost
  BY FrameKept
<1>2. Told' = Told
  BY FrameKept DEF Told
<1>3. phase' # "seeding"
  BY <1>1 DEF Listening
<1>4. ASSUME phase' = "ended"
      PROVE  (/\ OneJob /\ got # <<>> /\ got[Len(got)] = Result(watch) /\ work[watch].stage = Done
              /\ RowsOf(Told, lost, watch, work[watch].lines))'
  BY <1>1, <1>2, <1>4 DEF FollowInv
<1>5. QED
  BY <1>1, <1>3, <1>4 DEF FollowInv

LEMMA FollowQuiet ==
    ASSUME FollowInv, UNCHANGED followVars, UNCHANGED <<queue, lost>>, ShapeInv, Follows => Same
    PROVE  FollowInv'
<1>0. /\ kind' = kind /\ watch' = watch /\ phase' = phase /\ ends' = ends /\ got' = got
      /\ (OneJob' <=> OneJob) /\ (Listening' <=> Listening) /\ (got \o seed)' = got \o seed
      /\ Told' = Told /\ Buffer' = Buffer
  BY FrameKept DEF Told, Buffer
<1>1. CASE ~Listening
  <2>1. phase = "ended" => Follows /\ work[watch].stage = Done
    BY DEF FollowInv, Follows
  <2>2. QED
    BY <1>1, <2>1, FollowEnded DEF Same
<1>2. CASE Listening
  <2>1. phase' # "ended"
    BY <1>0, <1>2 DEF Listening
  <2>2. phase' = "seeding" /\ ends' => Closing(Told', watch')
    BY <1>0 DEF FollowInv
  <2>3. ASSUME OneJob
        PROVE  BGood(got \o seed, Buffer, watch, work[watch].lines, More, work[watch].stage = Done)'
    <3>1. Follows
      BY <1>2, <2>3 DEF Follows, Listening
    <3>2. More' = More
      BY <1>0, <3>1 DEF More, Same
    <3>3. /\ BGood(got \o seed, Buffer, watch, work[watch].lines, More, work[watch].stage = Done)
      BY <1>2, <2>3 DEF FollowInv
    <3>4. BGood(got \o seed, Buffer, watch, work'[watch].lines, More, work'[watch].stage = Done)
      BY <3>1, <3>3 DEF BGood, Same
    <3>5. QED
      BY <1>0, <3>2, <3>4
  <2>4. QED
    BY <1>0, <1>2, <2>1, <2>2, <2>3 DEF FollowInv
<1>3. QED
  BY <1>1, <1>2

LEMMA FollowFires ==
    ASSUME FollowInv, ShapeInv, EndInv, WorkInv, UNCHANGED followVars, NEW x \in Item, Fires(x), Follows => Moved(x)
    PROVE  FollowInv'
<1>0. /\ kind' = kind /\ watch' = watch /\ phase' = phase /\ ends' = ends /\ got' = got
      /\ (OneJob' <=> OneJob) /\ (Listening' <=> Listening) /\ (got \o seed)' = got \o seed
  BY FrameKept
<1>1. CASE ~Listening
  <2>1. UNCHANGED <<queue, lost>>
    BY <1>1, FiresShape
  <2>2. phase = "ended" => Follows /\ work[watch].stage = Done
    BY DEF FollowInv, Follows
  <2>3. phase = "ended" => work'[watch].lines = work[watch].lines /\ work'[watch].stage = Done
    BY <2>2 DEF Moved, Same
  <2>4. QED
    BY <1>1, <2>1, <2>3, FollowEnded
<1>2. CASE Listening /\ ~OneJob
  <2>1. phase # "ended" /\ ~ends
    BY <1>2 DEF Listening, ShapeInv, OneJob
  <2>2. QED
    BY <1>0, <1>2, <2>1 DEF FollowInv
<1>3. CASE Listening /\ OneJob
  <2> DEFINE s == got \o seed
             n == work[watch].lines
             m == More
             over == work[watch].stage = Done
             b == Handled(x)
  <2>0. Follows /\ phase # "ended" /\ watch \in Jobs /\ watch \in Int
    BY <1>3 DEF Follows, Listening, ShapeInv
  <2>1. BGood(s, Buffer, watch, n, m, over)
    BY <1>3 DEF FollowInv
  <2>2. Buffer \in Held /\ Buffer.q = queue /\ Buffer.lost = lost /\ s \in Seq(Frame)
    BY BufferFacts, ConcatFacts DEF ShapeInv
  <2>3. work[watch] \in JobRec /\ Coherent(work[watch]) /\ n \in Nat /\ m \in 0..3
    <3>1. work[watch] \in JobRec /\ Coherent(work[watch])
      BY <2>0 DEF WorkInv, Jobs
    <3>2. More \in 0..3
      BY DEF More
    <3>3. QED
      BY <3>1, <3>2 DEF JobRec
  <2>4. queue' = b.q /\ lost' = b.lost
    BY <1>3, FiresShape
  <2>5. Buffer' = [q |-> b.q, lost |-> b.lost]
    BY <2>4 DEF Buffer
  <2>6. Told = s \o Buffer.q /\ Told' = s \o b.q
    BY <1>0, <2>2, <2>4 DEF Told
  <2>7. More' = (IF work'[watch].told = Done THEN 0 ELSE 2) + (IF ends /\ phase = "seeding" THEN 1 ELSE 0)
    BY <1>0 DEF More
  <2>8. phase = "seeding" /\ ends => Closing(s \o Buffer.q, watch)
    BY <2>6 DEF FollowInv
  <2>9. SUFFICES /\ BGood(s, b, watch, work'[watch].lines, More', work'[watch].stage = Done)
                 /\ phase = "seeding" /\ ends => Closing(s \o b.q, watch)
    <3>1. BGood(s, Buffer', watch, work'[watch].lines, More', work'[watch].stage = Done)
      BY <2>5, <2>9 DEF BGood
    <3>2. BGood(got \o seed, Buffer, watch, work[watch].lines, More, work[watch].stage = Done)'
      BY <1>0, <3>1
    <3>3. phase' = "seeding" /\ ends' => Closing(Told', watch')
      BY <1>0, <2>6, <2>9
    <3>4. QED
      BY <1>0, <2>0, <3>2, <3>3 DEF FollowInv
  <2>10. CASE Ignored(x) /\ Same
    <3>1. b = Buffer
      BY <1>3, <2>10, HandledOne
    <3>2. More' = m
      BY <2>7, <2>10 DEF More, Same
    <3> HIDE DEF b, s, m
    <3>3. BGood(s, b, watch, work'[watch].lines, More', work'[watch].stage = Done)
      BY <2>1, <2>10, <3>1, <3>2 DEF BGood, Same
    <3>4. QED
      BY <2>8, <3>1, <3>3
  <2>11. CASE /\ x = Line(watch, n + 1) /\ work'[watch].lines = n + 1
              /\ work[watch].stage # Done /\ (work'[watch].told = Done <=> work[watch].told = Done)
    <3>1. x[1] = "line" /\ x[2] = watch
      BY <2>0, <2>3, <2>11, FrameFacts
    <3>2. b = Push(Buffer, Line(watch, n + 1))
      BY <1>3, <2>11, <3>1, HandledOne
    <3>3. BGood(s, Buffer, watch, n, m, FALSE)
      BY <2>1, <2>11 DEF BGood
    <3>4. More' = m
      BY <2>7, <2>11 DEF More
    <3> HIDE DEF s, m, n
    <3>5. BGood(s, b, watch, n + 1, m, work'[watch].stage = Done)
      BY <2>0, <2>2, <2>3, <3>2, <3>3, PushLine
    <3>6. ~(phase = "seeding" /\ ends)
      BY <2>2, <2>8, <3>3, ClosingIsOver
    <3>7. QED
      BY <2>11, <3>4, <3>5, <3>6
  <2>12. CASE /\ x = Stage(watch, Done) /\ work'[watch].lines = n
              /\ work[watch].told # Done /\ work'[watch].told = Done /\ work'[watch].stage = Done
    <3>1. x[1] = "stage" /\ x[2] = watch /\ x[3] = Done
      BY <2>0, <2>12, FrameFacts DEF Done
    <3>2. b = LetGo(Buffer, watch)
      BY <1>3, <3>1, HandledOne
    <3>3. More' = m - 2 /\ m \in 2..4
      BY <2>7, <2>12 DEF More
    <3> HIDE DEF s, m, n
    <3>4. BGood(s, b, watch, n, m - 2, TRUE) /\ Closing(s \o b.q, watch)
      BY <2>0, <2>1, <2>2, <2>3, <3>2, <3>3, LetGoGood
    <3>5. QED
      BY <2>12, <3>3, <3>4
  <2>13. QED
    BY <2>0, <2>10, <2>11, <2>12 DEF Moved
<1>4. QED
  BY <1>1, <1>2, <1>3

-----------------------------------------------------------------------------
(* The jobs. *)

LEMMA WorkStep ==
    ASSUME WorkInv, NEW j \in Jobs, NEW r \in JobRec, Coherent(r), work' = [work EXCEPT ![j] = r]
    PROVE  /\ WorkInv' /\ Len(work') = Len(work) /\ Jobs' = Jobs /\ work'[j] = r
           /\ \A k \in Jobs : k # j => work'[k] = work[k]
<1>1. work \in Seq(JobRec) /\ Len(work) \in Nat /\ DOMAIN work = 1..Len(work) /\ j \in 1..Len(work)
  BY DEF WorkInv, Jobs
<1>2. work' \in Seq(JobRec) /\ Len(work') = Len(work)
  BY <1>1
<1>3. \A k \in 1..Len(work) : work'[k] = IF k = j THEN r ELSE work[k]
  BY <1>1
<1>4. QED
  BY <1>1, <1>2, <1>3 DEF WorkInv, Jobs

\* A step of job j to r keeps what a stream has, whatever the step fires.
LEMMA ShapeKept ==
    ASSUME ShapeInv, WorkInv, UNCHANGED followVars, WorkInv',
           NEW x \in Item, Fires(x) \/ UNCHANGED <<queue, lost>>, EndInv,
           Jobs \subseteq Jobs',
           phase = "reading" => work'[watch].stage = Done /\ work'[watch].ram = 0
    PROVE  ShapeInv' /\ EndInv'
<1>0. /\ kind' = kind /\ watch' = watch /\ phase' = phase /\ ends' = ends /\ got' = got /\ seed' = seed
      /\ (OneJob' <=> OneJob)
  BY FrameKept
<1>1. /\ queue' \in Seq(Frame) /\ lost' \in BOOLEAN /\ (~OneJob => NoEnd(queue'))
      /\ ~Listening => UNCHANGED <<queue, lost>>
  BY FiresShape DEF ShapeInv, EndInv
<1>2. phase \in {"off", "reading"} => queue' = <<>>
  BY <1>1 DEF Listening, ShapeInv
<1>3. EndInv'
  BY <1>0, <1>1 DEF EndInv
<1>4. ShapeInv'
  BY <1>0, <1>1, <1>2 DEF ShapeInv
<1>5. QED
  BY <1>3, <1>4

\* What a step of a job may do to it.
Step(j, r) ==
    /\ j \in Jobs /\ r \in JobRec /\ Coherent(r) /\ work' = [work EXCEPT ![j] = r] /\ UNCHANGED followVars
    /\ work[j].stage = Done => r.stage = Done /\ (work[j].ram = 0 => r.ram = 0)

LEMMA StepQuiet ==
    ASSUME StreamInv, NEW j, NEW r, Step(j, r), UNCHANGED <<queue, lost>>,
           r.lines = work[j].lines /\ (r.told = Done <=> work[j].told = Done)
    PROVE  StreamInv'
<1>0. /\ j \in Jobs /\ r \in JobRec /\ Coherent(r) /\ work' = [work EXCEPT ![j] = r] /\ UNCHANGED followVars
      /\ work[j].stage = Done => r.stage = Done /\ (work[j].ram = 0 => r.ram = 0)
  BY DEF Step
<1>1. WorkInv /\ ShapeInv /\ EndInv /\ FollowInv
  BY DEF StreamInv
<1>2. /\ WorkInv' /\ Len(work') = Len(work) /\ Jobs' = Jobs /\ work'[j] = r
      /\ \A k \in Jobs : k # j => work'[k] = work[k]
  BY <1>0, <1>1, WorkStep
<1>3. phase = "reading" => work'[watch].stage = Done /\ work'[watch].ram = 0
  BY <1>0, <1>1, <1>2 DEF ShapeInv, OneJob
<1>4. Stage(0, 0) \in Item
  <2>1. 0 \in Int
    OBVIOUS
  <2>2. Stage(0, 0) \in Frame /\ Stage(0, 0)[1] = "stage"
    BY <2>1, FrameFacts
  <2>3. QED
    BY <2>2 DEF Item
<1>5. ShapeInv' /\ EndInv'
  BY <1>0, <1>1, <1>2, <1>3, <1>4, ShapeKept
<1>6. Follows => Same
  BY <1>0, <1>1, <1>2 DEF Follows, Same, ShapeInv
<1>7. FollowInv'
  BY <1>0, <1>1, <1>6, FollowQuiet
<1>8. QED
  BY <1>2, <1>5, <1>7 DEF StreamInv

\* A step that fires: a stage or the job's next line.
LEMMA StepFires ==
    ASSUME StreamInv, NEW j, NEW r, Step(j, r), NEW x \in Item, Fires(x),
           \/ /\ x = Stage(j, r.stage) /\ r.lines = work[j].lines /\ r.told = r.stage
              /\ work[j].told # Done
           \/ /\ x = Line(j, work[j].lines + 1) /\ r.lines = work[j].lines + 1
              /\ work[j].stage # Done /\ r.told = work[j].told
    PROVE  StreamInv'
<1>0. /\ j \in Jobs /\ r \in JobRec /\ Coherent(r) /\ work' = [work EXCEPT ![j] = r] /\ UNCHANGED followVars
      /\ work[j].stage = Done => r.stage = Done /\ (work[j].ram = 0 => r.ram = 0)
  BY DEF Step
<1>1. WorkInv /\ ShapeInv /\ EndInv /\ FollowInv
  BY DEF StreamInv
<1>2. /\ WorkInv' /\ Len(work') = Len(work) /\ Jobs' = Jobs /\ work'[j] = r
      /\ \A k \in Jobs : k # j => work'[k] = work[k]
  BY <1>0, <1>1, WorkStep
<1>3. phase = "reading" => work'[watch].stage = Done /\ work'[watch].ram = 0
  BY <1>0, <1>1, <1>2 DEF ShapeInv, OneJob
<1>4. ShapeInv' /\ EndInv'
  BY <1>0, <1>1, <1>2, <1>3, ShapeKept
<1>5. j \in Int /\ work[j].lines + 1 \in Int /\ r.stage \in Int
  BY <1>0, <1>1 DEF WorkInv, Jobs, JobRec
<1>6. ASSUME Follows PROVE Moved(x)
  <2>1. watch \in Jobs
    BY <1>1, <1>6 DEF Follows, ShapeInv
  <2>2. x[2] = j
    BY <1>5, FrameFacts
  <2>3. CASE watch # j
    BY <1>2, <2>1, <2>2, <2>3 DEF Moved, Ignored, Same
  <2>4. CASE watch = j /\ x = Line(j, work[j].lines + 1)
    <3>1. x[1] # "stage"
      BY <1>5, <2>4, FrameFacts
    <3>2. x # Stage(j, r.stage)
      <4>1. Stage(j, r.stage)[1] = "stage"
        BY <1>5, FrameFacts
      <4>2. QED
        BY <3>1, <4>1
    <3>3. QED
      BY <1>2, <2>4, <3>2 DEF Moved
  <2>5. CASE watch = j /\ x = Stage(j, r.stage)
    <3>1. x[1] = "stage" /\ x[3] = r.stage
      BY <1>5, <2>5, FrameFacts
    <3>2. x # Line(j, work[j].lines + 1)
      BY <1>5, <3>1, FrameFacts
    <3>3. CASE r.stage = Done
      BY <1>2, <2>5, <3>2, <3>3 DEF Moved
    <3>4. CASE r.stage # Done
      BY <1>0, <1>2, <2>5, <3>1, <3>2, <3>4 DEF Moved, Ignored, Same
    <3>5. QED
      BY <3>3, <3>4
  <2>6. QED
    BY <2>3, <2>4, <2>5
<1>7. FollowInv'
  BY <1>0, <1>1, <1>6, FollowFires
<1>8. QED
  BY <1>2, <1>4, <1>7 DEF StreamInv

LEMMA JobKeeps ==
    ASSUME StreamInv, NEW j \in Jobs, JobStep(j)
    PROVE  StreamInv'
<1> DEFINE o == work[j]
<1>1. o \in JobRec /\ Coherent(o) /\ work \in Seq(JobRec) /\ j \in DOMAIN work /\ j \in Int
  BY DEF StreamInv, WorkInv, Jobs
<1>2. /\ o.stage \in {0, 1, 2} /\ o.told \in {0, 1, 2} /\ o.lines \in Nat /\ o.ram \in Nat /\ o.disk \in Nat
      /\ o = [stage |-> o.stage, told |-> o.told, lines |-> o.lines, ram |-> o.ram, disk |-> o.disk]
  BY <1>1 DEF JobRec
<1>3. CASE Begin(j)
  <2> DEFINE r == [o EXCEPT !.stage = Running, !.told = Running]
  <2>1. r \in JobRec /\ r.stage = 1 /\ r.told = 1 /\ r.lines = o.lines /\ r.ram = o.ram /\ r.disk = o.disk
    BY <1>1, <1>2 DEF JobRec, Running
  <2>2. work' = [work EXCEPT ![j] = r] /\ o.stage = 0 /\ Fires(Stage(j, 1)) /\ UNCHANGED followVars
    BY <1>1, <1>3 DEF Begin, Running, Queued
  <2>3. Coherent(r)
    BY <1>1, <2>1, <2>2 DEF Coherent, Done, Queued
  <2> HIDE DEF r
  <2>4. Step(j, r)
    BY <2>1, <2>2, <2>3 DEF Step, Done
  <2>5. Stage(j, 1) \in Item
    BY <1>1, FrameFacts DEF Item
  <2>6. o.told # Done
    BY <1>1, <2>2 DEF Coherent, Done
  <2>7. QED
    BY <2>1, <2>2, <2>4, <2>5, <2>6, StepFires
<1>4. CASE Output(j)
  <2> DEFINE lines == o.lines + 1
             ram == o.ram + 1
             r == [o EXCEPT !.lines = lines, !.ram = ram]
  <2>1. /\ r \in JobRec /\ r.stage = o.stage /\ r.told = o.told /\ r.lines = o.lines + 1 /\ r.ram = o.ram + 1
        /\ r.disk = o.disk
    <3>1. lines \in Nat /\ ram \in Nat
      BY <1>2
    <3> HIDE DEF lines, ram
    <3>2. /\ r \in JobRec /\ r.stage = o.stage /\ r.told = o.told /\ r.lines = lines /\ r.ram = ram
          /\ r.disk = o.disk
      BY <1>1, <3>1 DEF JobRec
    <3>3. QED
      BY <3>2 DEF lines, ram
  <2>2. work' = [work EXCEPT ![j] = r] /\ o.stage = 1 /\ Fires(Line(j, o.lines + 1)) /\ UNCHANGED followVars
    BY <1>1, <1>4 DEF Output, Running
  <2>3. Coherent(r)
    BY <1>1, <1>2, <2>1, <2>2 DEF Coherent, Done, Queued
  <2> HIDE DEF r
  <2>4. Step(j, r)
    BY <2>1, <2>2, <2>3 DEF Step, Done
  <2>5. Line(j, o.lines + 1) \in Item
    BY <1>1, <1>2, FrameFacts DEF Item
  <2>6. o.stage # Done
    BY <2>2 DEF Done
  <2>7. QED
    BY <2>1, <2>2, <2>4, <2>5, <2>6, StepFires
<1>5. CASE Finish(j)
  <2> DEFINE r == [o EXCEPT !.stage = Done, !.told = Done]
  <2>1. r \in JobRec /\ r.stage = 2 /\ r.told = 2 /\ r.lines = o.lines /\ r.ram = o.ram /\ r.disk = o.disk
    BY <1>1, <1>2 DEF JobRec, Done
  <2>2. work' = [work EXCEPT ![j] = r] /\ o.stage = 1 /\ Fires(Stage(j, 2)) /\ UNCHANGED followVars
    BY <1>1, <1>5 DEF Finish, Running, Done
  <2>3. Coherent(r)
    BY <1>1, <2>1, <2>2 DEF Coherent, Done, Queued
  <2> HIDE DEF r
  <2>4. Step(j, r)
    BY <2>1, <2>2, <2>3 DEF Step, Done
  <2>5. Stage(j, 2) \in Item
    BY <1>1, FrameFacts DEF Item
  <2>6. o.told # Done
    BY <1>1, <2>2 DEF Coherent, Done
  <2>7. QED
    BY <2>1, <2>2, <2>4, <2>5, <2>6, StepFires
<1>6. CASE CancelQueued(j)
  <2> DEFINE r == [o EXCEPT !.stage = Done]
  <2>1. r \in JobRec /\ r.stage = 2 /\ r.told = o.told /\ r.lines = o.lines /\ r.ram = o.ram /\ r.disk = o.disk
    BY <1>1, <1>2 DEF JobRec, Done
  <2>2. work' = [work EXCEPT ![j] = r] /\ o.stage = 0 /\ UNCHANGED <<queue, lost>> /\ UNCHANGED followVars
    BY <1>1, <1>6 DEF CancelQueued, Queued
  <2>3. Coherent(r)
    BY <1>1, <2>1, <2>2 DEF Coherent, Done, Queued
  <2> HIDE DEF r
  <2>4. Step(j, r)
    BY <2>1, <2>2, <2>3 DEF Step, Done
  <2>5. QED
    BY <2>1, <2>2, <2>4, StepQuiet
<1>7. CASE CancelTold(j)
  <2> DEFINE r == [o EXCEPT !.told = Done]
  <2>1. r \in JobRec /\ r.stage = o.stage /\ r.told = 2 /\ r.lines = o.lines /\ r.ram = o.ram /\ r.disk = o.disk
    BY <1>1, <1>2 DEF JobRec, Done
  <2>2. /\ work' = [work EXCEPT ![j] = r] /\ o.stage = 2 /\ o.told # Done /\ Fires(Stage(j, 2))
        /\ UNCHANGED followVars
    BY <1>1, <1>7 DEF CancelTold, Done
  <2>3. Coherent(r)
    BY <1>1, <2>1, <2>2 DEF Coherent, Done, Queued
  <2> HIDE DEF r
  <2>4. Step(j, r)
    BY <2>1, <2>2, <2>3 DEF Step, Done
  <2>5. Stage(j, 2) \in Item
    BY <1>1, FrameFacts DEF Item
  <2>6. QED
    BY <2>1, <2>2, <2>4, <2>5, StepFires
<1>8. CASE Save(j)
  <2>0. o.stage = 2 /\ UNCHANGED <<queue, lost>> /\ UNCHANGED followVars /\ Flush(j) /\ o.ram > 0
    BY <1>8 DEF Save, Done
  <2>1. o.ram = o.lines
    BY <1>1, <1>2, <2>0 DEF Coherent
  <2>2. CASE work' = [work EXCEPT ![j].disk = o.ram]
    <3> DEFINE r == [o EXCEPT !.disk = o.ram]
    <3>1. r \in JobRec /\ r.stage = 2 /\ r.told = o.told /\ r.lines = o.lines /\ r.ram = o.ram /\ r.disk = o.ram
      BY <1>1, <1>2, <2>0 DEF JobRec
    <3>2. work' = [work EXCEPT ![j] = r]
      BY <1>1, <2>2
    <3>3. Coherent(r)
      BY <1>1, <2>0, <2>1, <3>1 DEF Coherent, Done, Queued
    <3> HIDE DEF r
    <3>4. Step(j, r)
      BY <2>0, <3>1, <3>2, <3>3 DEF Step, Done
    <3>5. QED
      BY <2>0, <3>1, <3>4, StepQuiet
  <2>3. CASE o.disk = o.ram /\ work' = [work EXCEPT ![j].ram = 0]
    <3> DEFINE r == [o EXCEPT !.ram = 0]
    <3>1. r \in JobRec /\ r.stage = 2 /\ r.told = o.told /\ r.lines = o.lines /\ r.ram = 0 /\ r.disk = o.disk
      BY <1>1, <1>2, <2>0 DEF JobRec
    <3>2. work' = [work EXCEPT ![j] = r]
      BY <1>1, <2>3
    <3>3. Coherent(r)
      BY <1>1, <2>0, <2>1, <2>3, <3>1 DEF Coherent, Done, Queued
    <3> HIDE DEF r
    <3>4. Step(j, r)
      BY <2>0, <3>1, <3>2, <3>3 DEF Step, Done
    <3>5. QED
      BY <2>0, <3>1, <3>4, StepQuiet
  <2>4. QED
    BY <2>0, <2>2, <2>3 DEF Flush
<1>9. QED
  BY <1>3, <1>4, <1>5, <1>6, <1>7, <1>8 DEF JobStep

LEMMA SubmitKeeps ==
    ASSUME StreamInv, Submit
    PROVE  StreamInv'
<1> DEFINE r == [stage |-> Queued, told |-> Queued, lines |-> 0, ram |-> 0, disk |-> 0]
           x == Stage(Len(work) + 1, Queued)
<1>0. WorkInv /\ ShapeInv /\ EndInv /\ FollowInv /\ work \in Seq(JobRec) /\ Len(work) \in Nat
  BY DEF StreamInv, WorkInv
<1>1. r \in JobRec /\ Coherent(r)
  BY DEF JobRec, Coherent, Queued, Done
<1>2. work' = Append(work, r) /\ Fires(x) /\ UNCHANGED followVars
  BY DEF Submit
<1> HIDE DEF r
<1>3. /\ work' \in Seq(JobRec) /\ Len(work') = Len(work) + 1 /\ work'[Len(work) + 1] = r
      /\ \A k \in 1..Len(work) : work'[k] = work[k]
  BY <1>0, <1>1, <1>2
<1>4. WorkInv' /\ Jobs \subseteq Jobs' /\ \A k \in Jobs : work'[k] = work[k]
  BY <1>0, <1>1, <1>3 DEF WorkInv, Jobs
<1>5. x \in Item /\ x[2] = Len(work) + 1
  BY <1>0, FrameFacts DEF Item, Queued
<1> HIDE DEF x
<1>6. phase = "reading" => watch \in Jobs
  BY <1>0 DEF ShapeInv, OneJob
<1>7. ShapeInv' /\ EndInv'
  <2>1. phase = "reading" => work'[watch].stage = Done /\ work'[watch].ram = 0
    BY <1>0, <1>4, <1>6 DEF ShapeInv
  <2>2. QED
    BY <1>0, <1>2, <1>4, <1>5, <2>1, ShapeKept
<1>8. ASSUME Follows PROVE Moved(x)
  <2>1. watch \in Jobs
    BY <1>0, <1>8 DEF Follows, ShapeInv
  <2>2. x[2] # watch
    BY <1>0, <1>5, <2>1 DEF Jobs
  <2>3. QED
    BY <1>4, <2>1, <2>2 DEF Moved, Ignored, Same
<1>9. FollowInv'
  BY <1>0, <1>2, <1>5, <1>8, FollowFires
<1>10. QED
  BY <1>4, <1>7, <1>9 DEF StreamInv

-----------------------------------------------------------------------------
(* A stream begins. *)

LEMMA LinesFacts ==
    ASSUME NEW w \in Int, NEW n \in Nat
    PROVE  /\ Lines(w, n) \in Seq(Frame) /\ Len(Lines(w, n)) = n /\ Clean(Lines(w, n)) /\ NoEnd(Lines(w, n))
           /\ Led(Lines(w, n), w) /\ RowsOf(Lines(w, n), FALSE, w, n)
           /\ \A k \in Nat : n <= k => RowsOf(Lines(w, n), TRUE, w, k)
<1> DEFINE t == Lines(w, n)
<1>1. DOMAIN t = 1..n /\ \A i \in 1..n : t[i] = Line(w, i)
  BY DEF Lines
<1>2. \A i \in 1..n : Line(w, i) \in Frame /\ LineOf(Line(w, i), w) /\ Line(w, i)[3] = i /\ Line(w, i)[1] = "line"
  BY FrameFacts DEF LineOf
<1>3. t \in Seq(Frame)
  BY <1>2, IsASeq DEF Lines
<1>4. Len(t) = n
  BY <1>1, <1>3
<1> HIDE DEF t
<1>5. \A i \in 1..n : ~Mark(t[i]) /\ t[i] # End
  BY <1>1, <1>2 DEF Mark, End
<1>6. Clean(t) /\ NoEnd(t) /\ Led(t, w)
  BY <1>1, <1>5 DEF Clean, NoEnd, Led
<1>7. ASSUME NEW k \in Nat, n <= k PROVE Sorted(t, w, k)
  BY <1>1, <1>2, <1>7 DEF Sorted
<1>8. Whole(t, w, n)
  BY <1>1, <1>2 DEF Whole
<1>9. RowsOf(t, FALSE, w, n) /\ \A k \in Nat : n <= k => RowsOf(t, TRUE, w, k)
  BY <1>7, <1>8 DEF RowsOf
<1>10. QED
  BY <1>3, <1>4, <1>6, <1>9 DEF t

\* The output of a job, then its result if it is over.
SeedOf(w, n, e) == IF e THEN Append(Lines(w, n), Result(w)) ELSE Lines(w, n)

LEMMA SeedFacts ==
    ASSUME NEW w \in Int, NEW n \in Nat, NEW e \in BOOLEAN
    PROVE  /\ SeedOf(w, n, e) \in Seq(Frame) /\ NoEnd(SeedOf(w, n, e)) /\ Led(SeedOf(w, n, e), w)
           /\ RowsOf(SeedOf(w, n, e), FALSE, w, n) /\ (e \/ Clean(SeedOf(w, n, e)))
           /\ e => Closing(SeedOf(w, n, e), w)
           /\ Lines(w, n) \o (IF e THEN <<Result(w)>> ELSE <<>>) = SeedOf(w, n, e)
<1> DEFINE t == Lines(w, n)
<1>0. t \in Seq(Frame) /\ Clean(t) /\ NoEnd(t) /\ Led(t, w) /\ RowsOf(t, FALSE, w, n)
  BY LinesFacts
<1>1. Result(w) \in Frame /\ Result(w) # End /\ ~LineOf(Result(w), w)
  BY FrameFacts DEF Result, End, LineOf
<1> HIDE DEF t
<1>2. CASE e
  <2>1. SeedOf(w, n, e) = Append(t, Result(w))
    BY <1>2 DEF SeedOf, t
  <2>2. NoEnd(Append(t, Result(w)))
    BY <1>0, <1>1, NoEndFacts
  <2>3. Led(Append(t, Result(w)), w) /\ Closing(Append(t, Result(w)), w)
    BY <1>0, <1>1, LedAppend, ClosingAppend
  <2>4. RowsOf(Append(t, Result(w)), FALSE, w, n)
    BY <1>0, <1>1, RowsAppend
  <2>5. Append(t, Result(w)) \in Seq(Frame)
    BY <1>0, <1>1, AppendFacts
  <2>6. t \o <<Result(w)>> = Append(t, Result(w))
    BY <1>0, <1>1, AppendIsConcat
  <2>7. QED
    BY <1>2, <2>1, <2>2, <2>3, <2>4, <2>5, <2>6 DEF t
<1>3. CASE ~e
  <2>1. SeedOf(w, n, e) = t /\ t \o <<>> = t
    BY <1>0, <1>3, ConcatEmptySeq DEF SeedOf, t
  <2>2. QED
    BY <1>0, <1>3, <2>1 DEF t
<1>4. QED
  BY <1>2, <1>3

LEMMA BeginSeeding ==
    ASSUME NEW w \in Int, NEW n \in Nat, NEW e \in BOOLEAN, work' = work, got' = <<>>, queue' = <<>>,
           seed' = SeedOf(w, n, e), watch' = w, ends' = e, phase' = "seeding", kind' = kind, OneJob,
           work[w].lines = n, e => work[w].stage = Done
    PROVE  FollowInv'
<1> DEFINE t == SeedOf(w, n, e)
<1>1. /\ t \in Seq(Frame) /\ Led(t, w) /\ RowsOf(t, FALSE, w, n) /\ (e \/ Clean(t)) /\ (e => Closing(t, w))
  BY SeedFacts
<1> HIDE DEF t
<1>2. <<>> \o t = t /\ t \o <<>> = t
  BY <1>1, ConcatEmptySeq
<1>3. Buffer' = [q |-> <<>>, lost |-> lost'] /\ Told' = t
  BY <1>2 DEF Buffer, Told, t
<1>4. ASSUME NEW m, NEW l PROVE BGood(t, [q |-> <<>>, lost |-> l], w, n, m, work[w].stage = Done)
  <2>1. RowsOf(t, l, w, n)
    BY <1>1 DEF RowsOf
  <2>2. Few(<<>>, m)
    BY DEF Few
  <2>3. QED
    BY <1>1, <1>2, <2>1, <2>2 DEF BGood
<1>5. BGood(got \o seed, Buffer, watch, work[watch].lines, More, work[watch].stage = Done)'
  <2>1. (got \o seed)' = t
    BY <1>2 DEF t
  <2>2. BGood(t, Buffer', w, n, More', work[w].stage = Done)
    BY <1>3, <1>4
  <2>3. QED
    BY <2>1, <2>2
<1>6. phase' = "seeding" /\ ends' => Closing(Told', watch')
  BY <1>1, <1>3
<1>7. QED
  BY <1>5, <1>6 DEF FollowInv

LEMMA ReplayedGood ==
    ASSUME WorkInv, NEW j \in Jobs
    PROVE  /\ Replayed(j) \in Held
           /\ LET m == IF work[j].told = Done THEN 0 ELSE 2 IN
                BGood(<<>>, Replayed(j), j, work[j].lines, m, work[j].stage = Done)
<1> DEFINE n == work[j].ram
           k == IF n > QueueMax THEN QueueMax ELSE n
           l == n > QueueMax \/ n < work[j].lines
           b == [q |-> Lines(j, k), lost |-> l]
           m == IF work[j].told = Done THEN 0 ELSE 2
           over == work[j].stage = Done
<1>0. work[j] \in JobRec /\ Coherent(work[j]) /\ j \in Int
  BY DEF WorkInv, Jobs
<1>1. n \in Nat /\ work[j].lines \in Nat /\ n <= work[j].lines /\ QueueMax \in Nat
  BY <1>0, StreamAssumption DEF JobRec, Coherent
<1>2. k \in Nat /\ k <= work[j].lines /\ (~l => k = work[j].lines) /\ l \in BOOLEAN
  BY <1>1
<1>3. m \in {0, 2} /\ (~over => m = 2)
  BY <1>0 DEF Coherent
<1>4. Replayed(j) = IF over THEN LetGo(b, j) ELSE b
  BY DEF Replayed
<1> HIDE DEF n, k, l, m, over
<1>5. /\ Lines(j, k) \in Seq(Frame) /\ Clean(Lines(j, k)) /\ Led(Lines(j, k), j)
      /\ RowsOf(Lines(j, k), FALSE, j, k) /\ RowsOf(Lines(j, k), TRUE, j, work[j].lines)
  BY <1>0, <1>1, <1>2, LinesFacts
<1>6. RowsOf(Lines(j, k), l, j, work[j].lines)
  BY <1>2, <1>5 DEF RowsOf
<1>7. <<>> \o Lines(j, k) = Lines(j, k) /\ <<>> \in Seq(Frame)
  BY <1>5, ConcatEmptySeq
<1>8. b \in Held /\ b.q = Lines(j, k) /\ b.lost = l
  BY <1>2, <1>5 DEF Held
<1> HIDE DEF b
<1>9. ASSUME NEW i PROVE Few(b.q, i)
  BY <1>5, <1>8 DEF Few, Clean
<1>10. ASSUME NEW i PROVE BGood(<<>>, b, j, work[j].lines, i, over)
  BY <1>5, <1>6, <1>7, <1>8, <1>9 DEF BGood
<1>11. CASE over
  <2>1. BGood(<<>>, b, j, work[j].lines, 4, over)
    BY <1>10
  <2>2. LetGo(b, j) \in Held /\ BGood(<<>>, LetGo(b, j), j, work[j].lines, 4 - 2, TRUE)
    <3>1. 4 \in 2..4
      OBVIOUS
    <3>2. QED
      BY <1>0, <1>1, <1>7, <1>8, <2>1, <3>1, LetGoGood
  <2>3. Few(LetGo(b, j).q, m)
    <3>1. Few(LetGo(b, j).q, 2) /\ LetGo(b, j).q \in Seq(Frame)
      BY <2>2 DEF BGood, Held
    <3>2. \A i \in DOMAIN LetGo(b, j).q : i \in Int /\ Len(LetGo(b, j).q) \in Int
      BY <3>1
    <3>3. QED
      BY <1>3, <3>1, <3>2 DEF Few
  <2>4. BGood(<<>>, LetGo(b, j), j, work[j].lines, m, over)
    BY <1>11, <2>2, <2>3 DEF BGood
  <2>5. QED
    BY <1>4, <1>11, <2>2, <2>4 DEF m, over
<1>12. CASE ~over
  BY <1>4, <1>8, <1>10, <1>12 DEF m, over
<1>13. QED
  BY <1>11, <1>12

LEMMA FollowKeeps ==
    ASSUME StreamInv, Follow
    PROVE  StreamInv'
<1>0. /\ WorkInv /\ ShapeInv /\ EndInv /\ phase = "off" /\ got = <<>> /\ seed = <<>> /\ queue = <<>> /\ ~ends
      /\ lost \in BOOLEAN /\ work' = work /\ kind' = kind /\ got' = <<>> /\ (OneJob' <=> OneJob)
  BY DEF StreamInv, ShapeInv, Follow, OneJob
<1>1. WorkInv' /\ Jobs' = Jobs
  BY <1>0 DEF WorkInv, Jobs
<1>e. <<>> \in Seq(Frame) /\ NoEnd(<<>>)
  BY DEF NoEnd
<1>2. CASE ~OneJob
  <2>1. FollowAll
    BY <1>2 DEF Follow
  <2>2. phase' = "seeding" /\ seed' = Rows /\ watch' = watch /\ ends' = ends /\ queue' = queue /\ lost' = lost
    BY <2>1 DEF FollowAll
  <2>3. Rows \in Seq(Frame) /\ NoEnd(Rows)
    <3>1. work \in Seq(JobRec) /\ Len(work) \in Nat
      BY <1>0 DEF WorkInv
    <3>2. \A j \in 1..Len(work) : Stage(j, work[j].stage) \in Frame /\ Stage(j, work[j].stage) # End
      <4>1. SUFFICES ASSUME NEW j \in 1..Len(work)
                     PROVE  Stage(j, work[j].stage) \in Frame /\ Stage(j, work[j].stage) # End
        OBVIOUS
      <4>2. work[j] \in JobRec
        BY <3>1
      <4>3. j \in Int /\ work[j].stage \in Int
        BY <4>2, <3>1 DEF JobRec
      <4>4. QED
        BY <4>3, FrameFacts DEF End
    <3>3. Rows = [j \in 1..Len(work) |-> Stage(j, work[j].stage)]
      BY DEF Rows, Jobs
    <3>4. Rows \in Seq(Frame)
      BY <3>1, <3>2, <3>3, IsASeq
    <3>5. QED
      BY <3>2, <3>3, <3>4 DEF NoEnd
  <2>4. ShapeInv' /\ EndInv'
    <3>1. kind # "legacy"
      BY <1>2 DEF OneJob
    <3>2. QED
      BY <1>0, <1>1, <1>2, <1>e, <2>2, <2>3, <3>1 DEF ShapeInv, EndInv
  <2>5. FollowInv'
    BY <1>0, <1>2, <2>2 DEF FollowInv
  <2>6. QED
    BY <1>1, <2>4, <2>5 DEF StreamInv
<1>3. CASE OneJob
  <2>1. PICK j \in Jobs : FollowOne(j)
    BY <1>3 DEF Follow
  <2>2. work[j] \in JobRec /\ Coherent(work[j]) /\ j \in Int /\ j \in Nat /\ watch' = j
    BY <1>0, <2>1 DEF WorkInv, Jobs, FollowOne
  <2>3. work[j].lines \in Nat /\ work[j].ram \in Nat
    BY <2>2 DEF JobRec
  <2>4. CASE kind = "legacy"
    <3>1. phase' = "live" /\ queue' = Replayed(j).q /\ lost' = Replayed(j).lost /\ seed' = <<>> /\ ends' = ends
      BY <1>0, <2>1, <2>4 DEF FollowOne, Hold
    <3>2. Replayed(j) \in Held
      BY <1>0, ReplayedGood
    <3>3. queue' \in Seq(Frame) /\ lost' \in BOOLEAN
      BY <3>1, <3>2 DEF Held
    <3>4. ShapeInv' /\ EndInv'
      BY <1>0, <1>1, <1>3, <1>e, <2>2, <2>4, <3>1, <3>3 DEF ShapeInv, EndInv
    <3>5. BGood(got \o seed, Buffer, watch, work[watch].lines, More, work[watch].stage = Done)'
      <4>1. More' = IF work[j].told = Done THEN 0 ELSE 2
        BY <1>0, <2>2, <3>1 DEF More
      <4>2. BGood(<<>>, Replayed(j), j, work[j].lines, More', work[j].stage = Done)
        BY <1>0, <4>1, ReplayedGood
      <4>3. Buffer' = [q |-> Replayed(j).q, lost |-> Replayed(j).lost]
        BY <3>1 DEF Buffer
      <4>4. BGood(<<>>, Buffer', j, work[j].lines, More', work[j].stage = Done)
        BY <4>2, <4>3 DEF BGood
      <4>5. (got \o seed)' = <<>>
        BY <1>0, <1>e, <3>1, ConcatEmptySeq
      <4>6. QED
        BY <1>0, <2>2, <4>4, <4>5
    <3>6. FollowInv'
      BY <3>1, <3>5 DEF FollowInv
    <3>7. QED
      BY <1>1, <3>4, <3>6 DEF StreamInv
  <2>5. CASE kind # "legacy"
    <3>0. kind = "tail"
      BY <1>3, <2>5 DEF OneJob
    <3>1. /\ queue' = queue /\ lost' = lost /\ ends' = (work[j].stage = Done)
          /\ \/ work[j].ram = 0 /\ work[j].stage = Done /\ phase' = "reading" /\ seed' = seed
             \/ /\ ~(work[j].ram = 0 /\ work[j].stage = Done) /\ phase' = "seeding"
                /\ seed' = Lines(j, work[j].ram) \o (IF ends' THEN <<Result(j)>> ELSE <<>>)
      BY <2>1, <2>5 DEF FollowOne
    <3>2. CASE phase' = "reading"
      <4>1. work[j].ram = 0 /\ work[j].stage = Done /\ seed' = seed /\ ends'
        BY <3>1, <3>2
      <4>2. ShapeInv' /\ EndInv'
        BY <1>0, <1>1, <1>3, <1>e, <2>2, <3>0, <3>1, <3>2, <4>1 DEF ShapeInv, EndInv
      <4>3. FollowInv'
        BY <3>2 DEF FollowInv, Listening
      <4>4. QED
        BY <1>1, <4>2, <4>3 DEF StreamInv
    <3>3. CASE phase' = "seeding"
      <4> DEFINE n == work[j].lines
                 e == ends'
      <4>1. work[j].ram = n
        BY <2>2, <3>1, <3>3 DEF Coherent
      <4>2. e \in BOOLEAN
        BY <3>1
      <4>3. seed' = SeedOf(j, n, e)
        <5>1. seed' = Lines(j, n) \o (IF e THEN <<Result(j)>> ELSE <<>>)
          BY <3>1, <3>3, <4>1
        <5>2. QED
          BY <2>2, <2>3, <4>2, <5>1, SeedFacts
      <4>4. seed' \in Seq(Frame) /\ NoEnd(seed')
        BY <2>2, <2>3, <4>2, <4>3, SeedFacts
      <4>5. ShapeInv' /\ EndInv'
        BY <1>0, <1>1, <1>3, <1>e, <2>2, <3>0, <3>1, <3>3, <4>2, <4>4 DEF ShapeInv, EndInv
      <4>6. FollowInv'
        BY <1>0, <1>3, <2>2, <2>3, <3>1, <3>3, <4>2, <4>3, BeginSeeding
      <4>7. QED
        BY <1>1, <4>5, <4>6 DEF StreamInv
    <3>4. QED
      BY <3>1, <3>2, <3>3
  <2>6. QED
    BY <2>4, <2>5
<1>4. QED
  BY <1>2, <1>3

LEMMA ReadKeeps ==
    ASSUME StreamInv, ReadHistory
    PROVE  StreamInv'
<1>0. /\ WorkInv /\ ShapeInv /\ EndInv /\ phase = "reading" /\ phase' = "seeding" /\ work' = work /\ kind' = kind
      /\ watch' = watch /\ ends' = ends /\ queue' = queue /\ got' = got /\ lost' = lost
      /\ seed' = Lines(watch, work[watch].disk) \o <<Result(watch)>>
  BY DEF StreamInv, ReadHistory
<1>1. /\ kind = "tail" /\ ends /\ work[watch].stage = Done /\ work[watch].ram = 0 /\ watch \in Jobs
      /\ got = <<>> /\ queue = <<>> /\ OneJob
  BY <1>0 DEF ShapeInv, OneJob
<1>2. work[watch] \in JobRec /\ Coherent(work[watch]) /\ watch \in Int
  BY <1>0, <1>1 DEF WorkInv, Jobs
<1>3. work[watch].disk = work[watch].lines /\ work[watch].lines \in Nat
  BY <1>1, <1>2 DEF Coherent, JobRec
<1>4. seed' = SeedOf(watch, work[watch].lines, TRUE)
  <2>1. seed' = Lines(watch, work[watch].lines) \o (IF TRUE THEN <<Result(watch)>> ELSE <<>>)
    BY <1>0, <1>3
  <2>2. QED
    BY <1>2, <1>3, <2>1, SeedFacts
<1>5. seed' \in Seq(Frame) /\ NoEnd(seed')
  BY <1>2, <1>3, <1>4, SeedFacts
<1>6. WorkInv' /\ Jobs' = Jobs
  BY <1>0 DEF WorkInv, Jobs
<1>7. ShapeInv' /\ EndInv'
  BY <1>0, <1>1, <1>5, <1>6 DEF ShapeInv, EndInv, OneJob
<1>8. FollowInv'
  BY <1>0, <1>1, <1>2, <1>3, <1>4, BeginSeeding
<1>9. QED
  BY <1>6, <1>7, <1>8 DEF StreamInv

-----------------------------------------------------------------------------
(* A stream goes on, and ends. *)

LEMMA SplitFacts ==
    ASSUME NEW t \in Seq(Frame), NEW n \in 0..Len(t)
    PROVE  /\ SubSeq(t, 1, n) \in Seq(Frame) /\ SubSeq(t, n + 1, Len(t)) \in Seq(Frame)
           /\ SubSeq(t, 1, n) \o SubSeq(t, n + 1, Len(t)) = t
           /\ NoEnd(t) => NoEnd(SubSeq(t, 1, n)) /\ NoEnd(SubSeq(t, n + 1, Len(t)))
<1> DEFINE a == SubSeq(t, 1, n)
           c == SubSeq(t, n + 1, Len(t))
<1>1. Len(t) \in Nat /\ DOMAIN t = 1..Len(t) /\ \A i \in 1..Len(t) : t[i] \in Frame
  OBVIOUS
<1>2. a \in Seq(Frame) /\ Len(a) = n /\ \A i \in 1..n : a[i] = t[i]
  OBVIOUS
<1>3. c \in Seq(Frame) /\ Len(c) = Len(t) - n /\ \A i \in 1..(Len(t) - n) : c[i] = t[n + i]
  <2>1. n + 1 \in Int /\ Len(t) \in Int /\ \A i \in (n + 1)..Len(t) : t[i] \in Frame
    BY <1>1
  <2>2. /\ c \in Seq(Frame) /\ Len(c) = IF n + 1 <= Len(t) THEN Len(t) - (n + 1) + 1 ELSE 0
        /\ \A i \in 1..(Len(t) - (n + 1) + 1) : c[i] = t[(n + 1) + i - 1]
    BY <2>1, SubSeqProperties
  <2> HIDE DEF c
  <2>3. Len(t) - (n + 1) + 1 = Len(t) - n /\ \A i \in 1..(Len(t) - n) : (n + 1) + i - 1 = n + i
    BY <1>1
  <2>4. Len(c) = Len(t) - n
    <3>1. n \in Int /\ n <= Len(t) /\ Len(t) \in Int
      BY <1>1
    <3>2. CASE n + 1 <= Len(t)
      BY <2>2, <2>3, <3>2
    <3>3. CASE ~(n + 1 <= Len(t))
      BY <2>2, <3>1, <3>3
    <3>4. QED
      BY <3>2, <3>3
  <2>5. QED
    BY <2>2, <2>3, <2>4
<1>4. a \o c = t
  <2>1. 1 \in 1..(Len(t) + 1) /\ n \in (1 - 1)..Len(t) /\ Len(t) \in n..Len(t)
    BY <1>1
  <2>2. a \o c = SubSeq(t, 1, Len(t))
    BY <2>1, ConcatAdjacentSubSeq
  <2>3. QED
    BY <2>2, SubSeqFull
<1> HIDE DEF a, c
<1>5. ASSUME NoEnd(t) PROVE NoEnd(a) /\ NoEnd(c)
  <2>1. \A i \in DOMAIN a : a[i] = t[i] /\ i \in DOMAIN t
    BY <1>1, <1>2
  <2>2. \A i \in DOMAIN c : c[i] = t[n + i] /\ n + i \in DOMAIN t
    BY <1>1, <1>3
  <2>3. QED
    BY <1>5, <2>1, <2>2 DEF NoEnd
<1>6. QED
  BY <1>2, <1>3, <1>4, <1>5 DEF a, c

LEMMA SendKeeps ==
    ASSUME StreamInv, SendSeed
    PROVE  StreamInv' /\ (kind = "state" => Told' = Told)
<1> DEFINE n == IF kind = "state" THEN Len(seed) ELSE IF seed = <<>> THEN 0 ELSE 1
           s == got \o seed
<1>0. /\ WorkInv /\ ShapeInv /\ EndInv /\ FollowInv /\ phase = "seeding" /\ work' = work /\ kind' = kind
      /\ watch' = watch /\ ends' = ends
      /\ got' = got \o SubSeq(seed, 1, n) /\ seed' = SubSeq(seed, n + 1, Len(seed))
      /\ \/ seed' = <<>> /\ phase' = "live" /\ Hold(IF ends THEN PushPriority(Buffer, End) ELSE Buffer)
         \/ seed' # <<>> /\ phase' = phase /\ queue' = queue /\ lost' = lost
  BY DEF StreamInv, SendSeed
<1>1. /\ got \in Seq(Frame) /\ seed \in Seq(Frame) /\ queue \in Seq(Frame) /\ NoEnd(got) /\ NoEnd(seed)
      /\ kind # "legacy" /\ (ends => OneJob) /\ watch \in Nat /\ (OneJob => watch \in Jobs) /\ lost \in BOOLEAN
      /\ ends \in BOOLEAN /\ (ends => kind = "tail") /\ kind \in {"tail", "legacy", "panel", "state"}
  BY <1>0 DEF ShapeInv, EndInv, OneJob
<1>2. n \in 0..Len(seed)
  BY <1>1
<1> HIDE DEF n
<1>3. DEFINE a == SubSeq(seed, 1, n)
<1>4. /\ a \in Seq(Frame) /\ seed' \in Seq(Frame) /\ a \o seed' = seed /\ NoEnd(a) /\ NoEnd(seed') /\ got' = got \o a
  BY <1>0, <1>1, <1>2, SplitFacts
<1> HIDE DEF a
<1>5. got' \in Seq(Frame) /\ got' \o seed' = s
  <2>1. got \o a \in Seq(Frame)
    BY <1>1, <1>4, ConcatFacts
  <2>2. PICK c \in Seq(Frame) : c = seed'
    BY <1>4
  <2>3. (got \o a) \o c = got \o (a \o c)
    BY <1>1, <1>4, <2>2, ConcatAssociative
  <2>4. QED
    BY <1>4, <2>1, <2>2, <2>3
<1>6. NoEnd(got')
  BY <1>1, <1>4, ConcatFacts DEF NoEnd
<1>7. Buffer \in Held /\ Buffer.q = queue /\ Buffer.lost = lost /\ s \in Seq(Frame)
  BY <1>0, <1>1, BufferFacts, ConcatFacts
<1>8. WorkInv' /\ Jobs' = Jobs /\ (OneJob' <=> OneJob)
  BY <1>0 DEF WorkInv, Jobs, OneJob
<1>9. (got \o seed)' = s
  BY <1>5
<1> HIDE DEF s
<1>10. Told = s \o queue /\ Told' = s \o queue'
  BY <1>9 DEF Told, s
<1>11. ASSUME OneJob
       PROVE  BGood(s, Buffer, watch, work[watch].lines, More, work[watch].stage = Done)
  BY <1>0, <1>11 DEF FollowInv, Listening, s
<1>12. CASE seed' # <<>> \/ ~ends
  <2>1. queue' = queue /\ lost' = lost /\ phase' \in {"seeding", "live"} /\ (phase' = "live" => seed' = <<>>)
    BY <1>0, <1>7, <1>12 DEF Hold
  <2>2. ShapeInv' /\ EndInv'
    BY <1>0, <1>1, <1>4, <1>5, <1>6, <1>8, <2>1 DEF ShapeInv, EndInv
  <2>3. Buffer' = Buffer /\ Told' = Told
    BY <1>10, <2>1 DEF Buffer
  <2>4. phase' = phase \/ ~ends
    BY <1>0, <1>12
  <2>5. More' = More
    BY <1>0, <2>4 DEF More
  <2>6. OneJob => BGood(got \o seed, Buffer, watch, work[watch].lines, More, work[watch].stage = Done)'
    BY <1>0, <1>9, <1>11, <2>3, <2>5
  <2>7. phase' = "seeding" /\ ends' => Closing(Told', watch')
    BY <1>0, <2>3 DEF FollowInv
  <2>8. FollowInv'
    BY <1>8, <2>1, <2>6, <2>7 DEF FollowInv
  <2>9. QED
    BY <1>8, <2>2, <2>3, <2>8 DEF StreamInv
<1>13. CASE seed' = <<>> /\ ends
  <2> DEFINE c == PushPriority(Buffer, End)
             m == More
             lines == work[watch].lines
             over == work[watch].stage = Done
  <2>1. queue' = c.q /\ lost' = c.lost /\ phase' = "live" /\ OneJob /\ kind = "tail"
    BY <1>0, <1>1, <1>13 DEF Hold
  <2>2. BGood(s, Buffer, watch, lines, m, over) /\ Closing(s \o Buffer.q, watch)
    BY <1>0, <1>7, <1>10, <1>11, <1>13, <2>1 DEF FollowInv
  <2>3. m \in 1..4 /\ More' = m - 1
    BY <1>0, <1>13, <2>1 DEF More
  <2>4. watch \in Int /\ lines \in Nat
    <3>1. work[watch] \in JobRec
      BY <1>0, <1>1, <2>1 DEF WorkInv, Jobs
    <3>2. QED
      BY <1>1, <3>1 DEF JobRec
  <2> HIDE DEF m, lines
  <2>5. over
    BY <1>7, <2>2, ClosingIsOver
  <2>6. BGood(s, c, watch, lines, m - 1, TRUE) /\ c \in Held
    BY <1>7, <2>2, <2>3, <2>4, PriorityMark
  <2>7. BGood(s, c, watch, lines, More', over)
    BY <2>3, <2>5, <2>6 DEF BGood
  <2> HIDE DEF c, over
  <2>8. Buffer' = [q |-> c.q, lost |-> c.lost]
    BY <2>1 DEF Buffer
  <2>9. BGood(s, Buffer', watch, lines, More', over)
    BY <2>7, <2>8 DEF BGood
  <2>10. BGood(got \o seed, Buffer, watch, work[watch].lines, More, work[watch].stage = Done)'
    BY <1>0, <1>9, <2>9 DEF lines, over
  <2>11. FollowInv'
    BY <2>1, <2>10 DEF FollowInv
  <2>12. queue' \in Seq(Frame) /\ lost' \in BOOLEAN
    BY <2>1, <2>6 DEF Held
  <2>13. ShapeInv' /\ EndInv'
    BY <1>0, <1>1, <1>4, <1>5, <1>6, <1>8, <1>13, <2>1, <2>12 DEF ShapeInv, EndInv
  <2>14. kind # "state"
    BY <2>1
  <2>15. QED
    BY <1>8, <2>11, <2>13, <2>14 DEF StreamInv
<1>14. QED
  BY <1>12, <1>13

LEMMA DrainKeeps ==
    ASSUME StreamInv, Drain
    PROVE  /\ StreamInv' /\ (phase' = "live" => Told' = Told)
           /\ \A i \in 1..Len(queue) : queue[i] = Terminate /\ phase' = "live" =>
                 \E k \in 1..Len(queue') : queue'[k] = Terminate
<1> DEFINE h == Head(queue)
           r == Tail(queue)
<1>0. /\ WorkInv /\ ShapeInv /\ EndInv /\ FollowInv /\ phase = "live" /\ queue # <<>> /\ work' = work /\ kind' = kind
      /\ watch' = watch /\ seed' = seed /\ ends' = ends /\ lost' = lost /\ queue' = r
      /\ phase' = IF h = End THEN "ended" ELSE IF h = Terminate THEN "closed" ELSE "live"
      /\ got' = IF phase' = "live" THEN Append(got, h) ELSE got
  BY DEF StreamInv, Drain
<1>1. /\ got \in Seq(Frame) /\ seed = <<>> /\ queue \in Seq(Frame) /\ NoEnd(got) /\ lost \in BOOLEAN
      /\ ends \in BOOLEAN /\ (OneJob => watch \in Jobs) /\ watch \in Nat
  BY <1>0 DEF ShapeInv, EndInv
<1>2. /\ h \in Frame /\ r \in Seq(Frame) /\ h = queue[1] /\ Len(r) = Len(queue) - 1 /\ Len(queue) \in Nat
      /\ \A i \in 1..Len(r) : r[i] = queue[i + 1]
  BY <1>0, <1>1
<1>3. got \o seed = got /\ Told = got \o queue
  BY <1>1, ConcatEmptySeq DEF Told
<1>4. ~OneJob => NoEnd(queue) /\ NoEnd(r)
  BY <1>0, <1>1, NoEndFacts DEF EndInv
<1>5. WorkInv' /\ Jobs' = Jobs /\ (OneJob' <=> OneJob)
  BY <1>0 DEF WorkInv, Jobs, OneJob
<1>6. 1 \in DOMAIN queue /\ DOMAIN queue = 1..Len(queue)
  BY <1>0, <1>1
<1>7. Without(got \o queue, got \o r, Len(got) + 1) /\ (got \o queue)[Len(got) + 1] = h
  BY <1>0, <1>1, DropBehind
<1>8. OneJob => BGood(got, Buffer, watch, work[watch].lines, More, work[watch].stage = Done)
  BY <1>0, <1>3 DEF FollowInv, Listening
<1>9. Buffer.q = queue /\ Buffer.lost = lost
  BY <1>0, BufferFacts
<1> HIDE DEF h, r
<1>10. CASE h = End
  <2>1. phase' = "ended" /\ got' = got
    BY <1>0, <1>10
  <2>2. OneJob
    BY <1>2, <1>4, <1>6, <1>10 DEF NoEnd
  <2>3. work[watch].lines \in Nat
    <3>1. work[watch] \in JobRec
      BY <1>0, <1>1, <2>2 DEF WorkInv, Jobs
    <3>2. QED
      BY <3>1 DEF JobRec
  <2> DEFINE t == got \o queue
             u == got \o r
             p == Len(got) + 1
  <2>4. /\ RowsOf(t, lost, watch, work[watch].lines) /\ Led(t, watch)
        /\ work[watch].stage = Done \/ Clean(t)
    BY <1>8, <1>9, <2>2 DEF BGood
  <2>5. p \in DOMAIN t /\ t[p] = End
    BY <1>7, <1>10 DEF Without
  <2>6. p > 1 /\ t[p - 1] \in {Result(watch), End}
    BY <2>4, <2>5 DEF Led
  <2>7. Len(got) \in DOMAIN got /\ t[p - 1] = got[Len(got)]
    <3>1. /\ Len(got) \in Nat /\ DOMAIN got = 1..Len(got)
          /\ \A i \in 1..(Len(got) + Len(queue)) : t[i] = IF i <= Len(got) THEN got[i] ELSE queue[i - Len(got)]
      BY <1>1, ConcatFacts
    <3>2. p - 1 = Len(got) /\ Len(got) \in 1..Len(got) /\ Len(got) \in 1..(Len(got) + Len(queue))
      BY <1>2, <2>6, <3>1
    <3>3. QED
      BY <3>1, <3>2
  <2>8. got[Len(got)] = Result(watch) /\ got # <<>>
    BY <1>1, <2>6, <2>7 DEF NoEnd
  <2>9. ~Clean(t)
    BY <2>5 DEF Clean, Mark, End
  <2>10. ~LineOf(End, watch)
    BY DEF LineOf, End
  <2> HIDE DEF t, u, p
  <2>11. Without(t, u, p)
    BY <1>7 DEF t, u, p
  <2>12. RowsOf(u, lost, watch, work[watch].lines)
    BY <2>3, <2>4, <2>5, <2>10, <2>11, RowsDrop
  <2>13. Told' = u
    <3>1. (got \o seed)' = got
      BY <1>0, <1>1, <1>3, <2>1
    <3>2. QED
      BY <1>0, <3>1 DEF Told, u
  <2>14. FollowInv'
    BY <1>0, <1>5, <2>1, <2>2, <2>4, <2>8, <2>9, <2>12, <2>13 DEF FollowInv, Listening
  <2>15. ShapeInv' /\ EndInv'
    BY <1>0, <1>1, <1>2, <1>4, <1>5, <2>1, <2>2 DEF ShapeInv, EndInv
  <2>16. QED
    BY <1>5, <2>1, <2>14, <2>15 DEF StreamInv
<1>11. CASE h = Terminate
  <2>1. phase' = "closed" /\ got' = got
    BY <1>0, <1>11 DEF End, Terminate
  <2>2. ShapeInv' /\ EndInv'
    BY <1>0, <1>1, <1>2, <1>4, <1>5, <2>1 DEF ShapeInv, EndInv
  <2>3. FollowInv'
    BY <2>1 DEF FollowInv, Listening
  <2>4. QED
    BY <1>5, <2>1, <2>2, <2>3 DEF StreamInv
<1>12. CASE h # End /\ h # Terminate
  <2>1. phase' = "live" /\ got' = Append(got, h)
    BY <1>0, <1>12
  <2>2. got' \in Seq(Frame) /\ NoEnd(got')
    BY <1>1, <1>2, <1>12, <2>1, AppendFacts, NoEndFacts
  <2>3. ShapeInv' /\ EndInv'
    BY <1>0, <1>1, <1>2, <1>4, <1>5, <2>1, <2>2 DEF ShapeInv, EndInv
  <2>4. Append(got, h) \o r = got \o queue
    <3>1. Append(got, h) = got \o <<h>> /\ <<h>> \in Seq(Frame)
      BY <1>1, <1>2, AppendIsConcat
    <3>2. <<h>> \o r = queue
      BY <1>0, <1>1 DEF h, r
    <3>3. (got \o <<h>>) \o r = got \o (<<h>> \o r)
      BY <1>1, <1>2, <3>1, ConcatAssociative
    <3>4. QED
      BY <3>1, <3>2, <3>3
  <2>5. (got \o seed)' = Append(got, h)
    BY <1>0, <1>1, <2>1, <2>2, ConcatEmptySeq
  <2>6. Told' = Told
    BY <1>0, <1>3, <2>4, <2>5 DEF Told
  <2>7. ASSUME OneJob
        PROVE  BGood(got \o seed, Buffer, watch, work[watch].lines, More, work[watch].stage = Done)'
    <3> DEFINE b == [q |-> r, lost |-> lost]
    <3>1. Buffer' = b /\ More' = More
      BY <1>0, <2>1 DEF Buffer, More
    <3>2. More \in 0..4
      BY DEF More
    <3>3. Few(r, More)
      <4>1. Few(queue, More)
        BY <1>8, <1>9, <2>7 DEF BGood
      <4>2. QED
        BY <1>0, <1>1, <3>2, <4>1, FewTail DEF r
    <3>4. BGood(Append(got, h), b, watch, work[watch].lines, More, work[watch].stage = Done)
      BY <1>8, <1>9, <2>4, <2>7, <3>3 DEF BGood
    <3>5. QED
      BY <1>0, <2>5, <3>1, <3>4
  <2>8. FollowInv'
    BY <1>5, <2>1, <2>7 DEF FollowInv
  <2>9. ASSUME NEW i \in 1..Len(queue), queue[i] = Terminate
        PROVE  \E k \in 1..Len(queue') : queue'[k] = Terminate
    <3>1. i # 1
      BY <1>2, <1>12, <2>9
    <3>2. i - 1 \in 1..Len(r) /\ (i - 1) + 1 = i
      BY <1>2, <3>1
    <3>3. r[i - 1] = Terminate
      BY <1>2, <2>9, <3>2
    <3>4. QED
      BY <1>0, <3>2, <3>3
  <2>10. QED
    BY <1>5, <2>3, <2>6, <2>8, <2>9 DEF StreamInv
<1>13. QED
  BY <1>10, <1>11, <1>12

LEMMA LeaveKeeps ==
    ASSUME StreamInv, Leave
    PROVE  StreamInv'
<1>0. /\ WorkInv /\ ShapeInv /\ EndInv /\ work' = work /\ kind' = kind /\ watch' = watch /\ seed' = seed
      /\ ends' = ends /\ lost' = lost /\ queue' = queue /\ got' = got /\ phase' = "left"
      /\ phase \in {"reading", "seeding", "live"}
  BY DEF StreamInv, Leave
<1>1. WorkInv' /\ Jobs' = Jobs /\ (OneJob' <=> OneJob)
  BY <1>0 DEF WorkInv, Jobs, OneJob
<1>2. ShapeInv' /\ EndInv'
  BY <1>0, <1>1 DEF ShapeInv, EndInv
<1>3. FollowInv'
  BY <1>0 DEF FollowInv, Listening
<1>4. QED
  BY <1>1, <1>2, <1>3 DEF StreamInv

LEMMA StreamStarts ==
    ASSUME StreamInit
    PROVE  StreamInv
<1>1. /\ work = <<>> /\ kind \in {"tail", "legacy", "panel", "state"} /\ watch = 0 /\ phase = "off"
      /\ seed = <<>> /\ ends = FALSE /\ queue = <<>> /\ got = <<>> /\ lost = FALSE
  BY DEF StreamInit
<1>2. <<>> \in Seq(Frame) /\ NoEnd(<<>>) /\ <<>> \in Seq(JobRec)
  BY DEF NoEnd
<1>3. WorkInv
  BY <1>1, <1>2 DEF WorkInv, Jobs
<1>4. ShapeInv /\ EndInv
  BY <1>1, <1>2 DEF ShapeInv, EndInv
<1>5. FollowInv
  BY <1>1 DEF FollowInv, Listening
<1>6. QED
  BY <1>3, <1>4, <1>5 DEF StreamInv

LEMMA StreamKept ==
    ASSUME StreamInv, [StreamNext]_streamVars
    PROVE  StreamInv'
<1>1. CASE StreamNext
  BY <1>1, SubmitKeeps, JobKeeps, FollowKeeps, ReadKeeps, SendKeeps, DrainKeeps, LeaveKeeps DEF StreamNext
<1>2. CASE UNCHANGED streamVars
  <2>1. /\ work' = work /\ kind' = kind /\ watch' = watch /\ seed' = seed /\ phase' = phase
        /\ ends' = ends /\ lost' = lost /\ queue' = queue /\ got' = got
    BY <1>2 DEF streamVars
  <2>2. WorkInv' /\ Jobs' = Jobs /\ (OneJob' <=> OneJob) /\ (Listening' <=> Listening) /\ More' = More
    BY <2>1 DEF StreamInv, WorkInv, Jobs, OneJob, Listening, More
  <2>3. ShapeInv' /\ EndInv'
    BY <2>1, <2>2 DEF StreamInv, ShapeInv, EndInv
  <2>4. Told' = Told /\ Buffer' = Buffer /\ (got \o seed)' = got \o seed
    BY <2>1 DEF Told, Buffer
  <2>5. FollowInv'
    BY <2>1, <2>2, <2>4 DEF StreamInv, FollowInv
  <2>6. QED
    BY <2>2, <2>3, <2>5 DEF StreamInv
<1>3. QED
  BY <1>1, <1>2

-----------------------------------------------------------------------------
(* The theorems. *)

LEMMA StreamInvHolds == StreamSpec => []StreamInv
<1>1. StreamInit => StreamInv
  BY StreamStarts
<1>2. StreamInv /\ [StreamNext]_streamVars => StreamInv'
  BY StreamKept
<1>3. QED
  BY <1>1, <1>2, PTL DEF StreamSpec

LEMMA RowsTell ==
    ASSUME NEW t \in Seq(Frame), NEW l \in BOOLEAN, NEW n \in Nat, RowsOf(t, l, watch, n)
    PROVE  /\ \A i, k \in LinesOf(t) : i < k => t[i][3] < t[k][3]
           /\ ~l => {t[i][3] : i \in LinesOf(t)} = 1..n
<1>1. \A i : i \in LinesOf(t) <=> i \in DOMAIN t /\ LineOf(t[i], watch)
  BY DEF LinesOf, LineOf
<1>2. \A i, k \in LinesOf(t) : i < k => t[i][3] < t[k][3]
  BY <1>1 DEF RowsOf, Sorted
<1>3. \A i \in LinesOf(t) : t[i][3] \in 1..n
  BY <1>1 DEF RowsOf, Sorted
<1>4. ASSUME ~l PROVE \A v \in 1..n : \E i \in LinesOf(t) : t[i][3] = v
  BY <1>1, <1>4 DEF RowsOf, Whole
<1>5. QED
  BY <1>2, <1>3, <1>4

LEMMA FollowerIsToldFollows ==
    ASSUME StreamInv
    PROVE  FollowerIsTold
<1>0. WorkInv /\ ShapeInv /\ FollowInv
  BY DEF StreamInv
<1>1. ASSUME OneJob, Listening \/ phase = "ended"
      PROVE  RowsOf(Told, lost, watch, work[watch].lines)
  <2>1. CASE Listening
    <3>1. BGood(got \o seed, Buffer, watch, work[watch].lines, More, work[watch].stage = Done)
      BY <1>0, <1>1, <2>1 DEF FollowInv
    <3>2. Buffer.q = queue /\ Buffer.lost = lost
      BY <1>0, BufferFacts
    <3>3. QED
      BY <3>1, <3>2 DEF BGood, Told
  <2>2. CASE phase = "ended"
    BY <1>0, <2>2 DEF FollowInv
  <2>3. QED
    BY <1>1, <2>1, <2>2
<1>2. Told \in Seq(Frame) /\ lost \in BOOLEAN
  <2>1. got \in Seq(Frame) /\ seed \in Seq(Frame) /\ queue \in Seq(Frame) /\ lost \in BOOLEAN
    BY <1>0 DEF ShapeInv
  <2>2. got \o seed \in Seq(Frame)
    BY <2>1, ConcatFacts
  <2>3. QED
    BY <2>1, <2>2, ConcatFacts DEF Told
<1>3. ASSUME OneJob, Listening \/ phase = "ended"
      PROVE  work[watch].lines \in Nat
  <2>1. watch \in Jobs
    BY <1>0, <1>3 DEF ShapeInv, Listening
  <2>2. work[watch] \in JobRec
    BY <1>0, <2>1 DEF WorkInv, Jobs
  <2>3. QED
    BY <2>2 DEF JobRec
<1>4. ASSUME OneJob, Listening \/ phase = "ended"
      PROVE  /\ \A i, k \in LinesOf(Told) : i < k => Told[i][3] < Told[k][3]
             /\ ~lost => {Told[i][3] : i \in LinesOf(Told)} = 1..work[watch].lines
  BY <1>1, <1>2, <1>3, <1>4, RowsTell
<1>5. phase = "ended" => got # <<>> /\ got[Len(got)] = Result(watch)
  BY <1>0 DEF FollowInv
<1>6. QED
  BY <1>4, <1>5 DEF FollowerIsTold

\* A follower of one job misses no line of it, has each once and in order, and hears the result before it is let go.
THEOREM FollowerIsToldHolds == StreamSpec => []FollowerIsTold
<1>1. StreamInv => FollowerIsTold
  BY FollowerIsToldFollows
<1>2. QED
  BY <1>1, StreamInvHolds, PTL

-----------------------------------------------------------------------------
(* The client of subscribe_events. *)

\* The last stage of job j in t is a or b.
Heard(t, j, a, b) ==
    \E i \in DOMAIN t :
       /\ t[i] \in {Stage(j, a), Stage(j, b)}
       /\ \A k \in DOMAIN t : t[k][1] = "stage" /\ t[k][2] = j => k <= i
Aware == \A j \in Jobs : Heard(Told, j, work[j].told, work[j].stage)
Doomed == \E i \in 1..Len(queue) : queue[i] = Terminate

LEMMA StaleMeans ==
    /\ StaleClientIsCutOff <=> (kind = "state" /\ Listening => Aware \/ Doomed)
    /\ StaleClientIsCutOff' <=> (kind' = "state" /\ Listening' => Aware' \/ Doomed')
BY DEF StaleClientIsCutOff, Aware, Doomed, Knows, Heard

LEMMA HeardFacts ==
    ASSUME NEW t \in Seq(Frame), NEW x \in Item, NEW j, NEW a, NEW b
    PROVE  /\ Heard(t, j, a, b) /\ (x[1] = "line" \/ x[2] # j) => Heard(Append(t, x), j, a, b)
           /\ x = Stage(j, a) => Heard(Append(t, x), j, a, b)
<1> DEFINE u == Append(t, x)
<1>1. /\ Len(t) \in Nat /\ DOMAIN t = 1..Len(t) /\ DOMAIN u = 1..(Len(t) + 1)
      /\ u[Len(t) + 1] = x /\ \A i \in 1..Len(t) : u[i] = t[i]
  BY AppendFacts DEF Item
<1> HIDE DEF u
<1>2. ASSUME Heard(t, j, a, b), x[1] = "line" \/ x[2] # j PROVE Heard(u, j, a, b)
  <2>1. PICK i \in DOMAIN t : /\ t[i] \in {Stage(j, a), Stage(j, b)}
                              /\ \A k \in DOMAIN t : t[k][1] = "stage" /\ t[k][2] = j => k <= i
    BY <1>2 DEF Heard
  <2>2. i \in DOMAIN u /\ u[i] = t[i]
    BY <1>1
  <2>3. ASSUME NEW k \in DOMAIN u, u[k][1] = "stage", u[k][2] = j PROVE k <= i
    <3>1. k # Len(t) + 1
      BY <1>1, <1>2, <2>3
    <3>2. k \in DOMAIN t /\ u[k] = t[k]
      BY <1>1, <3>1
    <3>3. QED
      BY <2>1, <2>3, <3>2
  <2>4. QED
    BY <2>1, <2>2, <2>3 DEF Heard
<1>3. ASSUME x = Stage(j, a) PROVE Heard(u, j, a, b)
  <2>1. Len(t) + 1 \in DOMAIN u /\ \A k \in DOMAIN u : k <= Len(t) + 1
    BY <1>1
  <2>2. QED
    BY <1>1, <1>3, <2>1 DEF Heard
<1>4. QED
  BY <1>2, <1>3 DEF u

\* What fires is the news of the only job that changes, unless what fires is a line.
News(x) ==
    \A k \in Jobs' :
       \/ x = Stage(k, work'[k].told)
       \/ /\ k \in Jobs /\ (x[1] = "line" \/ x[2] # k)
          /\ work'[k].told = work[k].told /\ work'[k].stage = work[k].stage

LEMMA StaleFires ==
    ASSUME StreamInv, StaleClientIsCutOff, UNCHANGED followVars, NEW x \in Item, Fires(x), News(x)
    PROVE  StaleClientIsCutOff'
<1>0. kind' = kind /\ (Listening' <=> Listening) /\ (got \o seed)' = got \o seed /\ ShapeInv /\ EndInv
  BY FrameKept DEF StreamInv
<1>1. SUFFICES ASSUME kind = "state", Listening PROVE Aware' \/ Doomed'
  BY <1>0, StaleMeans
<1>2. Aware \/ Doomed
  BY <1>1, StaleMeans
<1> DEFINE s == got \o seed
<1>3. s \in Seq(Frame) /\ queue \in Seq(Frame) /\ x \in Frame /\ x # End /\ Terminate \in Frame
  BY <1>0, ConcatFacts, FrameFacts DEF ShapeInv, Item, End
<1>4. Buffer \in Held /\ Buffer.q = queue
  BY <1>0, BufferFacts
<1>5. queue' = PushOrTerminate(Buffer, x).q
  BY <1>0, <1>1, FiresShape, HandledAll
<1>6. \/ queue' = Append(queue, x)
      \/ queue' = Append(Tail(queue), Terminate) /\ queue # <<>>
      \/ queue' = Append(queue, Terminate)
  BY <1>3, <1>4, <1>5, OrTerminateFacts
<1> HIDE DEF s
<1>7. ASSUME NEW q \in Seq(Frame), queue' = Append(q, Terminate) PROVE Doomed'
  <2>1. Len(q) + 1 \in 1..Len(queue') /\ queue'[Len(q) + 1] = Terminate
    BY <1>3, <1>7, AppendFacts
  <2>2. QED
    BY <2>1 DEF Doomed
<1>8. CASE queue' = Append(Tail(queue), Terminate) /\ queue # <<>>
  <2>1. Tail(queue) \in Seq(Frame)
    BY <1>3, <1>8
  <2>2. QED
    BY <1>7, <1>8, <2>1
<1>9. CASE queue' = Append(queue, Terminate)
  BY <1>3, <1>7, <1>9
<1>10. CASE queue' = Append(queue, x)
  <2>1. CASE Doomed
    <3>1. PICK i \in 1..Len(queue) : queue[i] = Terminate
      BY <2>1 DEF Doomed
    <3>2. i \in 1..Len(queue') /\ queue'[i] = Terminate
      BY <1>3, <1>10, <3>1, AppendFacts
    <3>3. QED
      BY <3>2 DEF Doomed
  <2>2. CASE Aware
    <3>1. Told = s \o queue /\ Told' = s \o queue'
      BY <1>0 DEF Told, s
    <3>2. Told' = Append(Told, x) /\ Told \in Seq(Frame)
      BY <1>3, <1>10, <3>1, AppendBehind, ConcatFacts
    <3>3. ASSUME NEW k \in Jobs' PROVE Heard(Append(Told, x), k, work'[k].told, work'[k].stage)
      <4>1. CASE x = Stage(k, work'[k].told)
        BY <3>2, <4>1, HeardFacts
      <4>2. CASE /\ k \in Jobs /\ (x[1] = "line" \/ x[2] # k)
                 /\ work'[k].told = work[k].told /\ work'[k].stage = work[k].stage
        <5>1. Heard(Told, k, work[k].told, work[k].stage)
          BY <2>2, <4>2 DEF Aware
        <5>2. Heard(Append(Told, x), k, work[k].told, work[k].stage)
          BY <3>2, <4>2, <5>1, HeardFacts
        <5>3. QED
          BY <4>2, <5>2
      <4>3. QED
        BY <4>1, <4>2 DEF News
    <3>4. Aware'
      BY <3>2, <3>3 DEF Aware
    <3>5. QED
      BY <3>4
  <2>3. QED
    BY <1>2, <2>1, <2>2
<1>11. QED
  BY <1>6, <1>8, <1>9, <1>10

LEMMA StaleQuiet ==
    ASSUME StaleClientIsCutOff, kind' = kind, Jobs' = Jobs,
           kind = "state" /\ Listening' => Listening /\ Told' = Told /\ (Doomed => Doomed'),
           \A k \in Jobs : \/ work'[k].told = work[k].told /\ work'[k].stage = work[k].stage
                           \/ work[k].told = work[k].stage /\ work'[k].told = work[k].told
    PROVE  StaleClientIsCutOff'
<1>1. SUFFICES ASSUME kind = "state", Listening' PROVE Aware' \/ Doomed'
  BY StaleMeans
<1>2. Told' = Told /\ (Doomed => Doomed') /\ (Aware \/ Doomed)
  BY <1>1, StaleMeans
<1>3. ASSUME Aware PROVE Aware'
  <2>1. ASSUME NEW k \in Jobs PROVE Heard(Told, k, work'[k].told, work'[k].stage)
    <3>1. Heard(Told, k, work[k].told, work[k].stage)
      BY <1>3 DEF Aware
    <3>2. QED
      BY <3>1 DEF Heard
  <2>2. QED
    BY <1>2, <2>1 DEF Aware
<1>4. QED
  BY <1>2, <1>3

LEMMA StaleJob ==
    ASSUME StreamInv, StaleClientIsCutOff, NEW j \in Jobs, JobStep(j)
    PROVE  StaleClientIsCutOff'
<1>1. /\ work[j] \in JobRec /\ Coherent(work[j]) /\ work \in Seq(JobRec) /\ j \in DOMAIN work /\ j \in Int
      /\ DOMAIN work = Jobs /\ work[j].lines \in Nat
  <2>1. work[j] \in JobRec /\ Coherent(work[j]) /\ work \in Seq(JobRec) /\ j \in DOMAIN work /\ j \in Int
        /\ DOMAIN work = Jobs
    BY DEF StreamInv, WorkInv, Jobs
  <2>2. QED
    BY <2>1 DEF JobRec
<1>2. CASE Begin(j)
  <2>1. /\ work' = [work EXCEPT ![j].stage = Running, ![j].told = Running] /\ UNCHANGED followVars
        /\ Fires(Stage(j, Running))
    BY <1>2 DEF Begin
  <2>2. Len(work') = Len(work) /\ work'[j].told = Running /\ \A k \in Jobs : k # j => work'[k] = work[k]
    BY <1>1, <2>1 DEF JobRec
  <2>3. Stage(j, Running) \in Item /\ Stage(j, Running)[2] = j
    BY <1>1, FrameFacts DEF Item, Running
  <2>4. News(Stage(j, Running))
    BY <2>2, <2>3 DEF News, Jobs
  <2>5. QED
    BY <2>1, <2>3, <2>4, StaleFires
<1>3. CASE Finish(j)
  <2>1. /\ work' = [work EXCEPT ![j].stage = Done, ![j].told = Done] /\ UNCHANGED followVars
        /\ Fires(Stage(j, Done))
    BY <1>3 DEF Finish
  <2>2. Len(work') = Len(work) /\ work'[j].told = Done /\ \A k \in Jobs : k # j => work'[k] = work[k]
    BY <1>1, <2>1 DEF JobRec
  <2>3. Stage(j, Done) \in Item /\ Stage(j, Done)[2] = j
    BY <1>1, FrameFacts DEF Item, Done
  <2>4. News(Stage(j, Done))
    BY <2>2, <2>3 DEF News, Jobs
  <2>5. QED
    BY <2>1, <2>3, <2>4, StaleFires
<1>4. CASE CancelTold(j)
  <2>1. work' = [work EXCEPT ![j].told = Done] /\ UNCHANGED followVars /\ Fires(Stage(j, Done))
    BY <1>4 DEF CancelTold
  <2>2. Len(work') = Len(work) /\ work'[j].told = Done /\ \A k \in Jobs : k # j => work'[k] = work[k]
    BY <1>1, <2>1 DEF JobRec
  <2>3. Stage(j, Done) \in Item /\ Stage(j, Done)[2] = j
    BY <1>1, FrameFacts DEF Item, Done
  <2>4. News(Stage(j, Done))
    BY <2>2, <2>3 DEF News, Jobs
  <2>5. QED
    BY <2>1, <2>3, <2>4, StaleFires
<1>5. CASE Output(j)
  <2> DEFINE x == Line(j, work[j].lines + 1)
  <2>1. /\ work' = [work EXCEPT ![j].lines = @ + 1, ![j].ram = @ + 1] /\ UNCHANGED followVars /\ Fires(x)
    BY <1>5 DEF Output
  <2>2. /\ Len(work') = Len(work) /\ \A k \in Jobs : k # j => work'[k] = work[k]
        /\ work'[j].told = work[j].told /\ work'[j].stage = work[j].stage
    BY <1>1, <2>1 DEF JobRec
  <2>3. x \in Item /\ x[1] = "line"
    BY <1>1, FrameFacts DEF Item
  <2> HIDE DEF x
  <2>4. News(x)
    BY <2>2, <2>3 DEF News, Jobs
  <2>5. QED
    BY <2>1, <2>3, <2>4, StaleFires
<1>6. CASE CancelQueued(j) \/ Save(j)
  <2>1. UNCHANGED followVars /\ queue' = queue
    BY <1>6 DEF CancelQueued, Save
  <2>2. kind' = kind /\ (Listening' => Listening) /\ Told' = Told /\ (Doomed => Doomed')
    BY <2>1, FrameKept DEF Told, Doomed
  <2>3. /\ Len(work') = Len(work) /\ \A k \in Jobs : k # j => work'[k] = work[k]
        /\ work'[j].told = work[j].told
        /\ work'[j].stage = work[j].stage \/ work[j].told = work[j].stage
    <3>1. CASE CancelQueued(j)
      <4>1. work' = [work EXCEPT ![j].stage = Done] /\ work[j].stage = Queued
        BY <3>1 DEF CancelQueued
      <4>2. work[j].told = work[j].stage
        BY <1>1, <4>1 DEF Coherent, Queued, Done
      <4>3. QED
        BY <1>1, <4>1, <4>2 DEF JobRec
    <3>2. CASE Save(j)
      <4>1. work' = [work EXCEPT ![j].disk = work[j].ram] \/ work' = [work EXCEPT ![j].ram = 0]
        BY <3>2 DEF Save, Flush
      <4>2. QED
        BY <1>1, <4>1 DEF JobRec
    <3>3. QED
      BY <1>6, <3>1, <3>2
  <2>4. Jobs' = Jobs
    BY <2>3 DEF Jobs
  <2>5. QED
    BY <2>2, <2>3, <2>4, StaleQuiet
<1>7. QED
  BY <1>2, <1>3, <1>4, <1>5, <1>6 DEF JobStep

LEMMA StaleSubmit ==
    ASSUME StreamInv, StaleClientIsCutOff, Submit
    PROVE  StaleClientIsCutOff'
<1> DEFINE x == Stage(Len(work) + 1, Queued)
           r == [stage |-> Queued, told |-> Queued, lines |-> 0, ram |-> 0, disk |-> 0]
<1>1. work \in Seq(JobRec) /\ Len(work) \in Nat /\ r \in JobRec /\ r.told = Queued
  BY DEF StreamInv, WorkInv, JobRec, Queued
<1>2. work' = Append(work, r) /\ Fires(x) /\ UNCHANGED followVars
  BY DEF Submit
<1> HIDE DEF r
<1>3. /\ Len(work') = Len(work) + 1 /\ work'[Len(work) + 1] = r
      /\ \A k \in 1..Len(work) : work'[k] = work[k]
  BY <1>1, <1>2
<1>4. x \in Item /\ x[2] = Len(work) + 1
  <2>1. Len(work) + 1 \in Int /\ Queued \in Int
    BY <1>1 DEF Queued
  <2>2. x \in Frame /\ x[1] = "stage" /\ x[2] = Len(work) + 1
    BY <2>1, FrameFacts
  <2>3. QED
    BY <2>2 DEF Item
<1>5. ASSUME NEW k \in Jobs'
      PROVE  \/ x = Stage(k, work'[k].told)
             \/ /\ k \in Jobs /\ (x[1] = "line" \/ x[2] # k)
                /\ work'[k].told = work[k].told /\ work'[k].stage = work[k].stage
  <2>1. CASE k = Len(work) + 1
    BY <1>1, <1>3, <2>1
  <2>2. CASE k # Len(work) + 1
    <3>1. k \in 1..Len(work)
      BY <1>1, <1>3, <2>2 DEF Jobs
    <3>2. QED
      BY <1>3, <1>4, <2>2, <3>1 DEF Jobs
  <2>3. QED
    BY <2>1, <2>2
<1> HIDE DEF x
<1>6. News(x)
  BY <1>5 DEF News
<1>7. QED
  BY <1>2, <1>4, <1>6, StaleFires

LEMMA StaleFollow ==
    ASSUME StreamInv, Follow
    PROVE  StaleClientIsCutOff'
<1>1. SUFFICES ASSUME kind' = "state", Listening' PROVE Aware'
  BY StaleMeans
<1>2. /\ kind = "state" /\ ~OneJob /\ FollowAll /\ got = <<>> /\ queue = <<>> /\ got' = got /\ work' = work
      /\ work \in Seq(JobRec)
  BY <1>1 DEF Follow, OneJob, StreamInv, ShapeInv, WorkInv
<1>3. seed' = Rows /\ queue' = <<>>
  BY <1>2 DEF FollowAll
<1>4. Rows = [j \in 1..Len(work) |-> Stage(j, work[j].stage)] /\ Len(work) \in Nat
  BY <1>2 DEF Rows, Jobs
<1>5. \A j \in 1..Len(work) : Stage(j, work[j].stage) \in Frame /\ Stage(j, work[j].stage)[2] = j
  <2>1. SUFFICES ASSUME NEW j \in 1..Len(work)
                 PROVE  Stage(j, work[j].stage) \in Frame /\ Stage(j, work[j].stage)[2] = j
    OBVIOUS
  <2>2. work[j] \in JobRec
    BY <1>2
  <2>3. j \in Int /\ work[j].stage \in Int
    BY <1>4, <2>2 DEF JobRec
  <2>4. QED
    BY <2>3, FrameFacts
<1>6. Rows \in Seq(Frame)
  BY <1>4, <1>5, IsASeq
<1>7. Told' = Rows
  <2>1. <<>> \o Rows = Rows /\ Rows \o <<>> = Rows
    BY <1>6, ConcatEmptySeq
  <2>2. Told' = (<<>> \o Rows) \o <<>>
    BY <1>2, <1>3 DEF Told
  <2>3. QED
    BY <2>1, <2>2
<1>8. ASSUME NEW j \in Jobs PROVE Heard(Rows, j, work[j].told, work[j].stage)
  BY <1>4, <1>5, <1>8 DEF Heard, Jobs
<1>9. QED
  BY <1>2, <1>7, <1>8 DEF Aware, Jobs

LEMMA StaleStep ==
    ASSUME StreamInv, StaleClientIsCutOff, [StreamNext]_streamVars
    PROVE  StaleClientIsCutOff'
<1>1. CASE Submit
  BY <1>1, StaleSubmit
<1>2. CASE \E j \in Jobs : JobStep(j)
  BY <1>2, StaleJob
<1>3. CASE Follow
  BY <1>3, StaleFollow
<1>4. CASE ReadHistory
  <2>1. kind' = kind /\ kind = "tail"
    BY <1>4 DEF ReadHistory, StreamInv, ShapeInv
  <2>2. QED
    BY <2>1, StaleMeans
<1>5. CASE SendSeed
  <2>1. /\ kind' = kind /\ work' = work /\ phase = "seeding" /\ Listening
        /\ (kind = "state" => Told' = Told)
    BY <1>5, SendKeeps DEF SendSeed, Listening
  <2>2. kind = "state" => queue' = queue
    <3>1. kind = "state" => ~ends
      BY DEF StreamInv, ShapeInv
    <3>2. QED
      BY <1>5, <3>1 DEF SendSeed, Hold, Buffer
  <2>3. Jobs' = Jobs /\ (kind = "state" /\ Doomed => Doomed')
    BY <2>1, <2>2 DEF Jobs, Doomed
  <2>4. QED
    BY <2>1, <2>3, StaleQuiet
<1>6. CASE Drain
  <2>1. kind' = kind /\ work' = work /\ Listening /\ phase' \in {"ended", "closed", "live"}
    BY <1>6 DEF Drain, Listening
  <2>2. Listening' => phase' = "live"
    BY <2>1 DEF Listening
  <2>3. Jobs' = Jobs /\ (Listening' => Told' = Told /\ (Doomed => Doomed'))
    BY <1>6, <2>1, <2>2, DrainKeeps DEF Jobs, Doomed
  <2>4. QED
    BY <2>1, <2>3, StaleQuiet
<1>7. CASE Leave
  <2>1. ~Listening'
    BY <1>7 DEF Leave, Listening
  <2>2. QED
    BY <2>1, StaleMeans
<1>8. CASE UNCHANGED streamVars
  <2>1. kind' = kind /\ work' = work /\ (Listening' => Listening) /\ Told' = Told /\ queue' = queue
    BY <1>8 DEF streamVars, Listening, Told
  <2>2. Jobs' = Jobs /\ (Doomed => Doomed')
    BY <2>1 DEF Jobs, Doomed
  <2>3. QED
    BY <2>1, <2>2, StaleQuiet
<1>9. QED
  BY <1>1, <1>2, <1>3, <1>4, <1>5, <1>6, <1>7, <1>8 DEF StreamNext

\* A client of subscribe_events knows where every job is, or its connection is about to be closed.
THEOREM StaleClientIsCutOffHolds == StreamSpec => []StaleClientIsCutOff
<1>1. StreamInit => StaleClientIsCutOff
  BY DEF StreamInit, StaleClientIsCutOff, Listening
<1>2. StreamInv /\ StaleClientIsCutOff /\ [StreamNext]_streamVars => StaleClientIsCutOff'
  BY StaleStep
<1>3. QED
  BY <1>1, <1>2, StreamInvHolds, PTL DEF StreamSpec

-----------------------------------------------------------------------------
(* The link's types, overlap or not. *)

ReqRecord    == [st : {"none", "sent", "approved", "pending", "spawn"}, host : Addr]
PeerKind     == {"none", "plain", "port"}
PollKind     == {"none", "ask", "parked", "flipped", "approved", "revoked", "spawn"}

RcvTypes ==
    /\ addr \in Addr /\ window \subseteq Tab /\ pending \in BOOLEAN
    /\ peer \in PeerKind /\ peerDisk \in PeerKind /\ dial \in {"none", "out", "held"}
OffTypes ==
    /\ row \in RowRecord /\ rowDisk \in RowRecord /\ poll \in PollKind /\ req \in ReqRecord
    /\ openLink \in BOOLEAN /\ probing \in BOOLEAN /\ rebind \in [Cause -> RebindRecord]
\* A client that dials or listens has a connection.
Plugged(t) == \A k \in Task : t[k].ph \in {"dial", "open"} => t[k].conn \in Conn
TaskTypes == task \in [Task -> TaskRecord] /\ handle \in Task \cup {NoOne} /\ Plugged(task)

PeerTypes == SlotInv /\ RcvTypes /\ OffTypes /\ TaskTypes

LEMMA FreeTypes ==
    /\ FreeTask \in TaskRecord /\ FreeTask.ph = "free" /\ NoRow \in RowRecord /\ NoReq \in ReqRecord
    /\ NoRebind \in RebindRecord
BY PeeringAssumption DEF FreeTask, TaskRecord, Phase, NoRow, RowRecord, NoReq, ReqRecord, NoRebind, RebindRecord

LEMMA PeerTypesStart == ASSUME PeeringInit PROVE PeerTypes
<1>1. SlotInv
  BY SlotInit
<1>2. RcvTypes /\ OffTypes /\ TaskTypes
  BY FreeTypes, PeeringAssumption DEF PeeringInit, RcvTypes, OffTypes, TaskTypes, Plugged, PeerKind, PollKind
<1>3. QED
  BY <1>1, <1>2 DEF PeerTypes

\* One task's record is replaced.
LEMMA TaskSet ==
    ASSUME NEW t \in [Task -> TaskRecord], Plugged(t), NEW k \in Task, NEW r \in TaskRecord,
           r.ph \in {"dial", "open"} => r.conn \in Conn
    PROVE  [t EXCEPT ![k] = r] \in [Task -> TaskRecord] /\ Plugged([t EXCEPT ![k] = r])
BY DEF Plugged

LEMMA TaskMoves ==
    ASSUME NEW r \in TaskRecord, NEW ph \in Phase
    PROVE  /\ [r EXCEPT !.ph = ph] \in TaskRecord /\ [r EXCEPT !.ph = ph].ph = ph
           /\ [r EXCEPT !.ph = ph].conn = r.conn
BY DEF TaskRecord

LEMMA SpawnTypes ==
    ASSUME TaskTypes, NEW t \in [Task -> TaskRecord], Plugged(t), NEW host \in Addr, SpawnFrom(t, host)
    PROVE  TaskTypes'
<1>1. CASE Alive(handle)
  BY <1>1 DEF SpawnFrom, TaskTypes
<1>2. CASE ~Alive(handle)
  <2> DEFINE r == [ph |-> "wait", host |-> host, conn |-> NoOne]
  <2>1. PICK k \in Task : task' = [t EXCEPT ![k] = r] /\ handle' = k
    BY <1>2 DEF SpawnFrom
  <2>2. r \in TaskRecord /\ r.ph = "wait"
    BY DEF TaskRecord, Phase
  <2> HIDE DEF r
  <2>3. QED
    BY <2>1, <2>2, TaskSet DEF TaskTypes
<1>3. QED
  BY <1>1, <1>2

LEMMA CancelTypes ==
    ASSUME TaskTypes, CancelClient
    PROVE  TaskTypes'
<1>1. CASE handle = NoOne
  BY <1>1 DEF CancelClient, TaskTypes
<1>2. CASE handle # NoOne
  <2>1. handle \in Task /\ task[handle] \in TaskRecord /\ "dying" \in Phase
    BY <1>2 DEF TaskTypes, Phase
  <2>2. task' = [task EXCEPT ![handle] = [task[handle] EXCEPT !.ph = "dying"]]
        \/ task' = [task EXCEPT ![handle] = FreeTask]
    BY <1>2, <2>1 DEF CancelClient, TaskTypes
  <2>3. handle' = NoOne
    BY DEF CancelClient
  <2>4. PICK r \in TaskRecord : task' = [task EXCEPT ![handle] = r] /\ r.ph \in {"dying", "free"}
    <3>1. [task[handle] EXCEPT !.ph = "dying"] \in TaskRecord /\ [task[handle] EXCEPT !.ph = "dying"].ph = "dying"
      BY <2>1, TaskMoves
    <3>2. QED
      BY <2>2, <3>1, FreeTypes
  <2>5. task \in [Task -> TaskRecord] /\ Plugged(task)
    BY DEF TaskTypes
  <2>6. task' \in [Task -> TaskRecord] /\ Plugged(task')
    BY <2>1, <2>4, <2>5, TaskSet
  <2>7. QED
    BY <2>3, <2>6 DEF TaskTypes
<1>3. QED
  BY <1>1, <1>2

LEMMA ClientTypes ==
    ASSUME PeerTypes, NEW k \in Task, TaskDials(k) \/ TaskReads(k) \/ TaskLoses(k) \/ TaskDies(k)
    PROVE  (RcvTypes /\ OffTypes /\ TaskTypes)'
<1>0. /\ task \in [Task -> TaskRecord] /\ task[k] \in TaskRecord /\ Plugged(task) /\ handle \in Task \cup {NoOne}
      /\ conn \in [Conn -> ConnRecord] /\ RcvTypes /\ OffTypes
  BY DEF PeerTypes, TaskTypes, SlotInv
<1>1. RcvTypes' /\ handle' = handle
  BY <1>0 DEF TaskDials, TaskReads, TaskLoses, TaskDies, rcvVars, RcvTypes
<1>2. OffTypes'
  BY <1>0 DEF TaskDials, TaskReads, TaskLoses, TaskDies, offVars, OffTypes, Closed
<1>3. {"dial", "open", "wait", "done", "superseded"} \subseteq Phase
  BY DEF Phase
<1>4. PICK r \in TaskRecord : /\ task' = [task EXCEPT ![k] = r]
                              /\ r.ph \in {"dial", "open"} => r.conn \in Conn
  <2>1. CASE TaskDials(k)
    <3>1. PICK c \in Conn : task' = [task EXCEPT ![k] = [task[k] EXCEPT !.ph = "dial", !.conn = c]]
      BY <1>0, <2>1 DEF TaskDials
    <3>2. DEFINE r == [task[k] EXCEPT !.ph = "dial", !.conn = c]
    <3>3. r \in TaskRecord /\ r.conn = c
      BY <1>0, <1>3 DEF TaskRecord
    <3>4. QED
      BY <3>1, <3>3
  <2>2. CASE TaskReads(k)
    <3>1. task[k].ph = "dial" /\ task[k].conn \in Conn
      BY <1>0, <2>2 DEF TaskReads, Plugged
    <3>2. conn[task[k].conn].reply \in {"ok", "pending", "revoked"}
      BY <1>0, <2>2, <3>1 DEF TaskReads, ConnRecord
    <3>3. \/ task' = [task EXCEPT ![k] = [task[k] EXCEPT !.ph = "open"]]
          \/ task' = [task EXCEPT ![k] = [task[k] EXCEPT !.ph = "wait", !.conn = NoOne]]
          \/ task' = [task EXCEPT ![k] = [task[k] EXCEPT !.ph = "done", !.conn = NoOne]]
      BY <1>0, <2>2, <3>2 DEF TaskReads
    <3>4. DEFINE r(p) == [task[k] EXCEPT !.ph = p, !.conn = NoOne]
                 o == [task[k] EXCEPT !.ph = "open"]
    <3>5. r("wait") \in TaskRecord /\ r("wait").ph = "wait" /\ r("done") \in TaskRecord /\ r("done").ph = "done"
      BY <1>0, <1>3 DEF TaskRecord
    <3>6. o \in TaskRecord /\ o.conn = task[k].conn
      BY <1>0, <1>3, TaskMoves
    <3>7. QED
      BY <3>1, <3>3, <3>5, <3>6
  <2>3. CASE TaskLoses(k)
    <3>1. \/ task' = [task EXCEPT ![k] = [task[k] EXCEPT !.ph = "superseded", !.conn = NoOne]]
          \/ task' = [task EXCEPT ![k] = [task[k] EXCEPT !.ph = "wait", !.conn = NoOne]]
      BY <1>0, <2>3 DEF TaskLoses
    <3>2. DEFINE r(p) == [task[k] EXCEPT !.ph = p, !.conn = NoOne]
    <3>3. /\ r("wait") \in TaskRecord /\ r("wait").ph = "wait"
          /\ r("superseded") \in TaskRecord /\ r("superseded").ph = "superseded"
      BY <1>0, <1>3 DEF TaskRecord
    <3>4. QED
      BY <3>1, <3>3
  <2>4. CASE TaskDies(k)
    <3>1. [FreeTask EXCEPT !.ph = "gone"] \in TaskRecord /\ [FreeTask EXCEPT !.ph = "gone"].ph = "gone"
      BY FreeTypes, TaskMoves DEF Phase
    <3>2. task' = [task EXCEPT ![k] = [FreeTask EXCEPT !.ph = "gone"]] \/ task' = [task EXCEPT ![k] = FreeTask]
      BY <2>4 DEF TaskDies
    <3>3. QED
      BY <3>1, <3>2, FreeTypes
  <2>5. QED
    BY <2>1, <2>2, <2>3, <2>4
<1>5. TaskTypes'
  BY <1>0, <1>1, <1>4, TaskSet DEF TaskTypes
<1>6. QED
  BY <1>1, <1>2, <1>5

LEMMA ServerTypes ==
    ASSUME PeerTypes, NEW c \in Conn, ServerAnswers(c) \/ ServerSettles(c) \/ ServerTimesOut(c) \/ ServerEnds(c)
    PROVE  (RcvTypes /\ OffTypes /\ TaskTypes)'
<1>1. OffTypes' /\ TaskTypes'
  BY DEF PeerTypes, ServerAnswers, ServerSettles, ServerTimesOut, ServerEnds, offVars, linkVars, OffTypes, TaskTypes
<1>2. RcvTypes'
  BY DEF PeerTypes, ServerAnswers, ServerSettles, ServerTimesOut, ServerEnds, rcvVars, RcvTypes, Registered, PeerKind
<1>3. QED
  BY <1>1, <1>2

LEMMA RowMoves ==
    ASSUME NEW r \in RowRecord, NEW h \in Addr
    PROVE  [r EXCEPT !.host = h] \in RowRecord
BY DEF RowRecord

LEMMA RequestTypes ==
    ASSUME PeerTypes, RequestStep
    PROVE  (RcvTypes /\ OffTypes /\ TaskTypes)'
<1>0. RcvTypes /\ OffTypes /\ TaskTypes /\ row \in RowRecord /\ row.host \in Addr /\ req \in ReqRecord
  BY DEF PeerTypes, OffTypes, RowRecord
<1>1. CASE RecordPairRequest
  <2>1. [req EXCEPT !.st = "approved"] \in ReqRecord /\ [req EXCEPT !.st = "pending"] \in ReqRecord
    BY <1>0 DEF ReqRecord
  <2>2. req' \in ReqRecord
    BY <1>1, <2>1, FreeTypes DEF RecordPairRequest
  <2>3. QED
    BY <1>0, <1>1, <2>2 DEF RecordPairRequest, linkVars, RcvTypes, OffTypes, TaskTypes
<1>2. CASE RequestFails
  <2>1. req' \in ReqRecord
    BY <1>2, FreeTypes DEF RequestFails
  <2>2. QED
    BY <1>0, <1>2, <2>1 DEF RequestFails, rcvVars, linkVars, RcvTypes, OffTypes, TaskTypes
<1>3. CASE RequestCommits
  <2>1. [req EXCEPT !.st = "spawn"] \in ReqRecord
    BY <1>0 DEF ReqRecord
  <2>2. req' \in ReqRecord
    BY <1>3, <2>1, FreeTypes DEF RequestCommits
  <2>3. row' \in RowRecord
    BY <1>0, <1>3 DEF RequestCommits, RowRecord, ReqRecord
  <2>4. poll' \in PollKind
    BY <1>3 DEF RequestCommits, PollKind
  <2>5. QED
    BY <1>0, <1>3, <2>2, <2>3, <2>4 DEF RequestCommits, rcvVars, linkVars, RcvTypes, OffTypes, TaskTypes
<1>4. CASE RequestSpawns
  <2>1. TaskTypes'
    BY <1>0, <1>4, SpawnTypes DEF RequestSpawns, Spawn, TaskTypes
  <2>2. req' \in ReqRecord
    BY <1>4, FreeTypes DEF RequestSpawns
  <2>3. QED
    BY <1>0, <1>4, <2>1, <2>2 DEF RequestSpawns, rcvVars, RcvTypes, OffTypes
<1>5. QED
  BY <1>1, <1>2, <1>3, <1>4 DEF RequestStep

LEMMA PollTypes ==
    ASSUME PeerTypes, PollStep
    PROVE  (RcvTypes /\ OffTypes /\ TaskTypes)'
<1>0. RcvTypes /\ OffTypes /\ TaskTypes /\ row \in RowRecord /\ row.host \in Addr
  BY DEF PeerTypes, OffTypes, RowRecord
<1>1. RcvTypes'
  BY <1>0 DEF PollStep, PollAsks, PollWakes, PollApplies, PollSpawns, rcvVars, RcvTypes
<1>2. TaskTypes'
  <2>1. CASE PollSpawns
    BY <1>0, <2>1, SpawnTypes DEF PollSpawns, Spawn, TaskTypes
  <2>2. CASE ~PollSpawns
    BY <1>0, <2>2 DEF PollStep, PollAsks, PollWakes, PollApplies, linkVars, TaskTypes
  <2>3. QED
    BY <2>1, <2>2
<1>3. poll' \in PollKind
  BY DEF PollStep, PollAsks, PollWakes, PollApplies, PollSpawns, StatusAnswer, PollKind
<1>4. row' \in RowRecord
  <2>1. [row EXCEPT !.st = "approved"] \in RowRecord /\ [row EXCEPT !.st = "none"] \in RowRecord
    BY <1>0, RowType
  <2>2. QED
    BY <1>0, <2>1 DEF PollStep, PollAsks, PollWakes, PollApplies, PollSpawns
<1>5. OffTypes'
  BY <1>0, <1>3, <1>4 DEF PollStep, PollAsks, PollWakes, PollApplies, PollSpawns, OffTypes
<1>6. QED
  BY <1>1, <1>2, <1>5

LEMMA RebindStepTypes ==
    ASSUME PeerTypes, RebindStep
    PROVE  (RcvTypes /\ OffTypes /\ TaskTypes)'
<1>0. RcvTypes /\ OffTypes /\ TaskTypes
  BY DEF PeerTypes
<1>1. PICK w \in Cause : ProbeRefused(w) \/ ProbeCommits(w) \/ Respawn(w)
  BY DEF RebindStep
<1>2. rebind[w] \in RebindRecord /\ rebind[w].host \in Addr /\ rebind[w].victim \in Task \cup {NoOne}
  BY <1>0 DEF OffTypes, RebindRecord
<1>3. dial' \in {"none", "out", "held"}
  BY <1>0, <1>1 DEF ProbeRefused, ProbeCommits, Respawn, ReplyTo, RcvTypes
<1>4. RcvTypes'
  BY <1>0, <1>1, <1>3 DEF ProbeRefused, ProbeCommits, Respawn, RcvTypes
<1>5. row' \in RowRecord
  BY <1>0, <1>1, <1>2, RowMoves DEF ProbeRefused, ProbeCommits, Respawn, OffTypes
<1>6. rebind' \in [Cause -> RebindRecord]
  <2>1. CASE rebind' = [rebind EXCEPT ![w] = NoRebind]
    BY <1>0, <2>1, FreeTypes DEF OffTypes
  <2>2. CASE ProbeCommits(w) /\ Alive(handle)
    <3> DEFINE r == [rebind[w] EXCEPT !.st = "teardown", !.victim = handle]
    <3>1. rebind' = [rebind EXCEPT ![w] = r]
      BY <1>0, <2>2 DEF ProbeCommits, OffTypes
    <3>2. r \in RebindRecord
      BY <1>0, <1>2 DEF RebindRecord, TaskTypes
    <3>3. QED
      BY <1>0, <3>1, <3>2 DEF OffTypes
  <2>3. QED
    BY <1>1, <2>1, <2>2 DEF ProbeRefused, ProbeCommits, Respawn
<1>7. OffTypes'
  BY <1>0, <1>1, <1>5, <1>6 DEF ProbeRefused, ProbeCommits, Respawn, OffTypes
<1>8. TaskTypes'
  <2>1. CASE ProbeRefused(w)
    BY <1>0, <2>1 DEF ProbeRefused, linkVars, TaskTypes
  <2>2. CASE ProbeCommits(w)
    BY <1>0, <1>2, <2>2, CancelTypes, SpawnTypes DEF ProbeCommits, Spawn, TaskTypes
  <2>3. CASE Respawn(w)
    <3> DEFINE v == rebind[w].victim
               t == [task EXCEPT ![v] = IF @.ph = "gone" THEN FreeTask ELSE @]
    <3>1. SpawnFrom(t, rebind[w].host)
      BY <2>3 DEF Respawn
    <3>2. \A k \in Task : (IF task[k].ph = "gone" THEN FreeTask ELSE task[k]) \in TaskRecord
      BY <1>0, FreeTypes DEF TaskTypes
    <3>3. t \in [Task -> TaskRecord]
      BY <1>0, <3>2 DEF TaskTypes
    <3>4. \A k \in Task : t[k] = task[k] \/ t[k] = FreeTask
      BY <1>0 DEF TaskTypes
    <3> HIDE DEF t
    <3>5. Plugged(t)
      BY <1>0, <3>4, FreeTypes DEF TaskTypes, Plugged
    <3>6. QED
      BY <1>0, <1>2, <3>1, <3>3, <3>5, SpawnTypes
  <2>4. QED
    BY <1>1, <2>1, <2>2, <2>3
<1>9. QED
  BY <1>4, <1>7, <1>8

\* A probe is about the row as it is.
LEMMA ProbeType ==
    ASSUME OffTypes, NEW w \in Cause, NEW h \in Addr, Probe(w, h)
    PROVE  rebind' \in [Cause -> RebindRecord]
<1> DEFINE r == [st |-> "probe", host |-> h, gen |-> row.gen, victim |-> NoOne]
<1>1. rebind' = [rebind EXCEPT ![w] = r]
  BY DEF Probe
<1>2. row.gen \in Nat
  BY DEF OffTypes, RowRecord
<1>3. r \in RebindRecord
  BY <1>2 DEF RebindRecord
<1>4. QED
  BY <1>1, <1>3 DEF OffTypes

LEMMA TimerTypes ==
    ASSUME PeerTypes, TimerStep
    PROVE  (RcvTypes /\ OffTypes /\ TaskTypes)'
<1>0. RcvTypes /\ OffTypes /\ TaskTypes /\ row \in RowRecord /\ "back" \in Cause /\ addr \in Addr
  BY DEF PeerTypes, OffTypes, RcvTypes, Cause
<1>1. TaskTypes'
  BY <1>0 DEF TimerStep, SweepConnectBack, HandleConnectBack, ProbeSlotExpires, SavePeers, SavePairings,
              WindowDeadline, linkVars, TaskTypes
<1>2. RcvTypes'
  BY <1>0 DEF TimerStep, SweepConnectBack, HandleConnectBack, ProbeSlotExpires, SavePeers, SavePairings,
              WindowDeadline, ClearPending, rcvVars, RcvTypes
<1>3. OffTypes'
  <2>1. CASE HandleConnectBack
    <3>1. rebind' \in [Cause -> RebindRecord]
      BY <1>0, <2>1, ProbeType DEF HandleConnectBack, OffTypes
    <3>2. QED
      BY <1>0, <2>1, <3>1 DEF HandleConnectBack, OffTypes
  <2>2. CASE SavePairings
    <3>1. ApprovedRow \in RowRecord
      BY <1>0, RowType DEF ApprovedRow
    <3>2. QED
      BY <1>0, <2>2, <3>1 DEF SavePairings, OffTypes
  <2>3. CASE SweepConnectBack \/ ProbeSlotExpires \/ SavePeers \/ WindowDeadline
    BY <1>0, <2>3 DEF SweepConnectBack, ProbeSlotExpires, SavePeers, WindowDeadline, ClearPending, Flip,
                      offVars, OffTypes, PollKind
  <2>4. QED
    BY <2>1, <2>2, <2>3 DEF TimerStep
<1>4. QED
  BY <1>1, <1>2, <1>3

LEMMA OperatorTypes ==
    ASSUME PeerTypes, OperatorStep
    PROVE  (RcvTypes /\ OffTypes /\ TaskTypes)'
<1>0. RcvTypes /\ OffTypes /\ TaskTypes /\ row \in RowRecord /\ "edit" \in Cause /\ addr \in Addr
  BY DEF PeerTypes, OffTypes, RcvTypes, Cause
<1>1. CASE RequestPair
  <2>1. req' \in ReqRecord
    BY <1>0, <1>1 DEF RequestPair, ReqRecord
  <2>2. QED
    BY <1>0, <1>1, <2>1 DEF RequestPair, rcvVars, linkVars, RcvTypes, OffTypes, TaskTypes
<1>2. CASE Unpair
  <2>1. TaskTypes'
    BY <1>0, <1>2, CancelTypes DEF Unpair
  <2>2. row' \in RowRecord /\ poll' \in PollKind
    BY <1>0, <1>2, RowType DEF Unpair, PollKind
  <2>3. QED
    BY <1>0, <1>2, <2>1, <2>2 DEF Unpair, rcvVars, RcvTypes, OffTypes
<1>3. CASE \E h \in Addr : EditEndpoint(h)
  <2>1. PICK h \in Addr : EditEndpoint(h)
    BY <1>3
  <2>2. rebind' \in [Cause -> RebindRecord]
    BY <1>0, <2>1, ProbeType DEF EditEndpoint
  <2>3. QED
    BY <1>0, <2>1, <2>2 DEF EditEndpoint, rcvVars, linkVars, RcvTypes, OffTypes, TaskTypes
<1>4. CASE ApprovePeer \/ RemovePeer
  BY <1>0, <1>4 DEF ApprovePeer, RemovePeer, Flip, linkVars, RcvTypes, OffTypes, TaskTypes, PeerKind, PollKind
<1>5. CASE \E t \in Tab : OpenWindow(t) \/ CloseWindow(t)
  BY <1>0, <1>5 DEF OpenWindow, CloseWindow, ClearPending, Flip, offVars, linkVars, RcvTypes, OffTypes, TaskTypes, PollKind
<1>6. QED
  BY <1>1, <1>2, <1>3, <1>4, <1>5 DEF OperatorStep

LEMMA WorldTypes ==
    ASSUME PeerTypes, WorldStep
    PROVE  (RcvTypes /\ OffTypes /\ TaskTypes)'
<1>0. RcvTypes /\ OffTypes /\ TaskTypes /\ "mdns" \in Cause /\ addr \in Addr
  BY DEF PeerTypes, RcvTypes, Cause
<1>1. CASE DialFails
  BY <1>0, <1>1 DEF DialFails, offVars, linkVars, RcvTypes, OffTypes, TaskTypes
<1>2. CASE MdnsSeen
  <2>1. rebind' \in [Cause -> RebindRecord]
    BY <1>0, <1>2, ProbeType DEF MdnsSeen
  <2>2. QED
    BY <1>0, <1>2, <2>1 DEF MdnsSeen, rcvVars, linkVars, RcvTypes, OffTypes, TaskTypes
<1>3. CASE ReceiverMoves \/ ReceiverRestarts
  BY <1>0, <1>3 DEF ReceiverMoves, ReceiverRestarts, Unparked, linkVars, RcvTypes, OffTypes, TaskTypes, PollKind
<1>4. CASE OffloaderRestarts
  <2>1. RcvTypes'
    BY <1>0, <1>4 DEF OffloaderRestarts, RcvTypes
  <2>2. rebind' \in [Cause -> RebindRecord] /\ req' \in ReqRecord
    BY <1>4, FreeTypes DEF OffloaderRestarts
  <2>3. OffTypes'
    BY <1>0, <1>4, <2>2 DEF OffloaderRestarts, OffTypes, PollKind
  <2>4. TaskTypes'
    <3> DEFINE r == [ph |-> "wait", host |-> rowDisk.host, conn |-> NoOne]
    <3>1. r \in TaskRecord /\ r.ph = "wait"
      BY <1>0 DEF OffTypes, RowRecord, TaskRecord, Phase
    <3>2. PICK k \in Task : \/ task' = [j \in Task |-> IF j = k THEN r ELSE FreeTask] /\ handle' = k
                            \/ task' = [j \in Task |-> FreeTask] /\ handle' = NoOne
      BY <1>4 DEF OffloaderRestarts
    <3> HIDE DEF r
    <3>3. QED
      BY <3>1, <3>2, FreeTypes DEF TaskTypes, Plugged
  <2>5. QED
    BY <2>1, <2>3, <2>4
<1>5. CASE \E c \in Conn : DropConnection(c)
  BY <1>0, <1>5 DEF DropConnection, rcvVars, offVars, linkVars, RcvTypes, OffTypes, TaskTypes
<1>6. QED
  BY <1>1, <1>2, <1>3, <1>4, <1>5 DEF WorldStep

LEMMA PeerTypesKept ==
    ASSUME PeerTypes, [PeeringNext]_peerVars
    PROVE  PeerTypes'
<1>1. SlotInv'
  BY ClientKeepsSlot, ServerKeepsSlot, WorldKeepsSlot, OthersKeepSlot DEF PeerTypes, PeeringNext, ClientStep, ServerStep
<1>2. CASE UNCHANGED peerVars
  <2>1. RcvTypes' /\ OffTypes' /\ TaskTypes'
    BY <1>2 DEF PeerTypes, peerVars, RcvTypes, OffTypes, TaskTypes
  <2>2. QED
    BY <1>1, <2>1 DEF PeerTypes
<1>3. CASE PeeringNext
  <2>1. (RcvTypes /\ OffTypes /\ TaskTypes)'
    <3>1. CASE ClientStep
      BY <3>1, ClientTypes DEF ClientStep
    <3>2. CASE ServerStep
      BY <3>2, ServerTypes DEF ServerStep
    <3>3. CASE RequestStep
      BY <3>3, RequestTypes
    <3>4. CASE PollStep
      BY <3>4, PollTypes
    <3>5. CASE RebindStep
      BY <3>5, RebindStepTypes
    <3>6. CASE TimerStep
      BY <3>6, TimerTypes
    <3>7. CASE OperatorStep
      BY <3>7, OperatorTypes
    <3>8. CASE WorldStep
      BY <3>8, WorldTypes
    <3>9. QED
      BY <1>3, <3>1, <3>2, <3>3, <3>4, <3>5, <3>6, <3>7, <3>8 DEF PeeringNext
  <2>2. QED
    BY <1>1, <2>1 DEF PeerTypes
<1>4. QED
  BY <1>2, <1>3

LEMMA PeerTyped == ASSUME PeerTypes PROVE PeeringTypeOK
<1>1. \A k \in Task : task[k].ph \in Phase
  BY DEF PeerTypes, TaskTypes, TaskRecord
<1>2. conn \in [Conn -> ConnRecord] /\ slot \in Conn \cup {NoOne}
  BY DEF PeerTypes, SlotInv
<1>3. row.st \in {"none", "pending", "approved"} /\ row.host \in Addr
  BY DEF PeerTypes, OffTypes, RowRecord
<1>4. QED
  BY <1>1, <1>2, <1>3 DEF PeerTypes, RcvTypes, OffTypes, TaskTypes, PeeringTypeOK, PeerKind, PollKind, ConnRecord, Phase

-----------------------------------------------------------------------------
(* A stream's types: its queue never holds more than it may. *)

StreamPhase == {"off", "reading", "seeding", "live", "ended", "closed", "left"}
Short(b) == Len(b.q) <= QueueMax
StreamBounds == phase \in StreamPhase /\ watch \in 0..Len(work) /\ Len(queue) <= QueueMax

LEMMA PushesShort ==
    ASSUME NEW b \in Held, NEW x \in Frame, Short(b)
    PROVE  Short(Push(b, x)) /\ Short(PushPriority(b, x))
<1>1. b.q \in Seq(Frame) /\ Len(b.q) \in Nat /\ QueueMax \in Nat /\ QueueMax >= 4
  BY StreamAssumption DEF Held
<1>2. CASE Full(b)
  <2>1. Push(b, x).q = b.q /\ PushPriority(b, x).q = Append(Tail(b.q), x)
    BY <1>2 DEF Push, PushPriority, Held
  <2>2. b.q # <<>>
    BY <1>1, <1>2 DEF Full
  <2>3. Tail(b.q) \in Seq(Frame) /\ Len(Tail(b.q)) = Len(b.q) - 1
    BY <1>1, <2>2
  <2>4. Len(Append(Tail(b.q), x)) = Len(b.q)
    BY <1>1, <2>3
  <2>5. QED
    BY <2>1, <2>4 DEF Short
<1>3. CASE ~Full(b)
  <2>1. Push(b, x).q = Append(b.q, x) /\ PushPriority(b, x).q = Append(b.q, x)
    BY <1>3, HeldAppend DEF Push, PushPriority
  <2>2. Len(Append(b.q, x)) = Len(b.q) + 1
    BY <1>1
  <2>3. QED
    BY <1>1, <1>3, <2>1, <2>2 DEF Full, Short
<1>4. QED
  BY <1>2, <1>3

LEMMA LetGoShort ==
    ASSUME NEW b \in Held, NEW w \in Int, Short(b)
    PROVE  Short(LetGo(b, w))
<1>1. Result(w) \in Frame /\ End \in Frame
  BY FrameFacts
<1>2. PushPriority(b, Result(w)) \in Held /\ Short(PushPriority(b, Result(w)))
  BY <1>1, PriorityFacts, PushesShort
<1>3. QED
  BY <1>1, <1>2, PushesShort DEF LetGo

LEMMA OrTerminateShort ==
    ASSUME NEW b \in Held, NEW x \in Frame, Short(b)
    PROVE  Short(PushOrTerminate(b, x))
<1>1. CASE Full(b)
  BY <1>1, FrameFacts, PushesShort DEF PushOrTerminate
<1>2. CASE ~Full(b)
  <2>1. PushOrTerminate(b, x) = Push(b, x)
    BY <1>2 DEF PushOrTerminate, Push
  <2>2. QED
    BY <2>1, PushesShort
<1>3. QED
  BY <1>1, <1>2

\* What fires leaves the queue within its bound, whatever the command does with it.
LEMMA FiresShort ==
    ASSUME ShapeInv, EndInv, StreamBounds, NEW x \in Item, Fires(x)
    PROVE  Len(queue') <= QueueMax
<1>1. Buffer \in Held /\ Buffer.q = queue /\ Short(Buffer) /\ x \in Frame /\ watch \in Int
  BY BufferFacts DEF Short, StreamBounds, Item, ShapeInv
<1>2. Short(Push(Buffer, x)) /\ Short(PushPriority(Buffer, x)) /\ Short(PushOrTerminate(Buffer, x))
      /\ Short(LetGo(Buffer, watch))
  BY <1>1, PushesShort, OrTerminateShort, LetGoShort
<1>3. CASE OneJob
  <2>1. Handled(x) \in {Buffer, Push(Buffer, x), LetGo(Buffer, watch)}
    BY <1>3, HandledOne DEF Ignored, Item
  <2>2. Short(Handled(x))
    BY <1>1, <1>2, <2>1
  <2>3. QED
    BY <1>1, <2>2, FiresShape DEF Short
<1>4. CASE ~OneJob
  <2>1. kind \in {"state", "panel"}
    BY <1>4 DEF OneJob, ShapeInv
  <2>2. Short(Handled(x))
    BY <1>2, <2>1, HandledAll
  <2>3. QED
    BY <1>1, <2>2, FiresShape DEF Short
<1>5. QED
  BY <1>3, <1>4

LEMMA JobShort ==
    ASSUME StreamInv, StreamBounds, NEW j \in Jobs, JobStep(j)
    PROVE  StreamBounds'
<1>1. ShapeInv /\ EndInv /\ work \in Seq(JobRec) /\ j \in Int /\ work[j].lines \in Nat
  <2>1. ShapeInv /\ EndInv /\ work \in Seq(JobRec) /\ j \in Int /\ work[j] \in JobRec
    BY DEF StreamInv, WorkInv, Jobs
  <2>2. QED
    BY <2>1 DEF JobRec
<1>2. /\ Stage(j, Running) \in Item /\ Stage(j, Done) \in Item
      /\ Line(j, work[j].lines + 1) \in Item
  <2>1. work[j].lines + 1 \in Int /\ Running \in Int /\ Done \in Int
    BY <1>1 DEF Running, Done
  <2>2. QED
    BY <1>1, <2>1, FrameFacts DEF Item
<1>3. UNCHANGED followVars /\ \E r : work' = [work EXCEPT ![j] = r]
  BY DEF JobStep, Begin, Output, Finish, CancelQueued, CancelTold, Save, Flush
<1>4. Len(work') = Len(work) /\ watch' = watch /\ phase' = phase
  BY <1>1, <1>3 DEF followVars
<1>5. queue' = queue \/ \E x \in Item : Fires(x)
  BY <1>2 DEF JobStep, Begin, Output, Finish, CancelQueued, CancelTold, Save
<1>6. Len(queue') <= QueueMax
  BY <1>1, <1>5, FiresShort DEF StreamBounds
<1>7. QED
  BY <1>4, <1>6 DEF StreamBounds

LEMMA SubmitShort ==
    ASSUME StreamInv, StreamBounds, Submit
    PROVE  StreamBounds'
<1>1. ShapeInv /\ EndInv /\ work \in Seq(JobRec) /\ Len(work) \in Nat
  BY DEF StreamInv, WorkInv
<1>2. Stage(Len(work) + 1, Queued) \in Item
  <2>1. Len(work) + 1 \in Int /\ Queued \in Int
    BY <1>1 DEF Queued
  <2>2. QED
    BY <2>1, FrameFacts DEF Item
<1>3. Len(queue') <= QueueMax
  BY <1>1, <1>2, FiresShort DEF Submit
<1>4. Len(work') = Len(work) + 1 /\ watch' = watch /\ phase' = phase
  BY <1>1 DEF Submit, followVars
<1>5. QED
  BY <1>1, <1>3, <1>4 DEF StreamBounds

LEMMA ReplayedShort ==
    ASSUME WorkInv, NEW j \in Jobs
    PROVE  Short(Replayed(j))
<1> DEFINE n == work[j].ram
           k == IF n > QueueMax THEN QueueMax ELSE n
           l == n > QueueMax \/ n < work[j].lines
           b == [q |-> Lines(j, k), lost |-> l]
<1>1. n \in Nat /\ QueueMax \in Nat /\ j \in Int
  <2>1. work[j] \in JobRec /\ j \in Int
    BY DEF WorkInv, Jobs
  <2>2. QED
    BY <2>1, StreamAssumption DEF JobRec
<1>2. k \in Nat /\ k <= QueueMax
  BY <1>1
<1>3. Replayed(j) = b \/ Replayed(j) = LetGo(b, j)
  BY DEF Replayed
<1> HIDE DEF n, k, l
<1>4. Lines(j, k) \in Seq(Frame) /\ Len(Lines(j, k)) = k
  BY <1>1, <1>2, LinesFacts
<1>5. l \in BOOLEAN
  BY DEF l
<1>6. b \in Held /\ b.q = Lines(j, k)
  BY <1>4, <1>5 DEF Held
<1> HIDE DEF b
<1>7. Short(b)
  BY <1>2, <1>4, <1>6 DEF Short
<1>8. QED
  BY <1>1, <1>3, <1>6, <1>7, LetGoShort

LEMMA FollowShort ==
    ASSUME StreamInv, StreamBounds, Follow
    PROVE  StreamBounds'
<1>1. WorkInv /\ work' = work /\ Jobs = 1..Len(work) /\ Len(work) \in Nat
  BY DEF StreamInv, WorkInv, Follow, Jobs
<1>2. ASSUME NEW j \in Jobs, FollowOne(j) PROVE StreamBounds'
  <2>1. watch' = j /\ phase' \in StreamPhase
    BY <1>2 DEF FollowOne, StreamPhase
  <2>2. queue' = queue \/ queue' = Replayed(j).q
    BY <1>2 DEF FollowOne, Hold
  <2>3. Len(queue') <= QueueMax
    BY <1>1, <2>2, ReplayedShort DEF Short, StreamBounds
  <2>4. QED
    BY <1>1, <2>1, <2>3 DEF StreamBounds
<1>3. CASE FollowAll
  BY <1>1, <1>3 DEF FollowAll, StreamBounds, StreamPhase
<1>4. QED
  BY <1>2, <1>3 DEF Follow

LEMMA SendShort ==
    ASSUME StreamInv, StreamBounds, SendSeed
    PROVE  StreamBounds'
<1>1. Buffer \in Held /\ Buffer.q = queue /\ Short(Buffer) /\ End \in Frame
  BY BufferFacts, FrameFacts DEF StreamInv, Short, StreamBounds
<1>2. Short(PushPriority(Buffer, End))
  BY <1>1, PushesShort
<1>3. queue' = queue \/ queue' = PushPriority(Buffer, End).q
  BY <1>1 DEF SendSeed, Hold
<1>4. work' = work /\ watch' = watch /\ phase' \in StreamPhase
  BY DEF SendSeed, StreamBounds, StreamPhase
<1>5. QED
  BY <1>2, <1>3, <1>4 DEF Short, StreamBounds

LEMMA DrainShort ==
    ASSUME StreamInv, StreamBounds, Drain
    PROVE  StreamBounds'
<1>1. queue \in Seq(Frame) /\ queue # <<>> /\ queue' = Tail(queue) /\ QueueMax \in Nat
  BY StreamAssumption DEF StreamInv, ShapeInv, Drain
<1>2. Len(queue') = Len(queue) - 1 /\ Len(queue) \in Nat
  BY <1>1
<1>3. work' = work /\ watch' = watch /\ phase' \in StreamPhase
  BY DEF Drain, StreamPhase
<1>4. QED
  BY <1>1, <1>2, <1>3 DEF StreamBounds

LEMMA BoundsKept ==
    ASSUME StreamInv, StreamBounds, [StreamNext]_streamVars
    PROVE  StreamBounds'
<1>1. CASE ReadHistory \/ Leave \/ UNCHANGED streamVars
  BY <1>1 DEF ReadHistory, Leave, streamVars, StreamBounds, StreamPhase
<1>2. QED
  BY <1>1, JobShort, SubmitShort, FollowShort, SendShort, DrainShort DEF StreamNext

LEMMA StreamTyped == ASSUME StreamInv, StreamBounds PROVE StreamTypeOK
<1>1. \A j \in Jobs : work[j] \in JobRec /\ Coherent(work[j])
  BY DEF StreamInv, WorkInv, Jobs
<1>2. \A j \in Jobs : work[j].told <= work[j].stage /\ work[j].ram \in {0, work[j].lines}
  BY <1>1 DEF JobRec, Coherent, Done, Queued
<1>3. QED
  BY <1>2 DEF StreamInv, ShapeInv, StreamBounds, StreamPhase, StreamTypeOK

LEMMA BoundsStart == ASSUME StreamInit PROVE StreamBounds
<1>1. QueueMax \in Nat /\ Len(queue) = 0 /\ Len(work) = 0
  BY StreamAssumption DEF StreamInit
<1>2. QED
  BY <1>1 DEF StreamInit, StreamBounds, StreamPhase

-----------------------------------------------------------------------------
(* The instance that combines the three parts. *)

\* However endpoint changes, operator commands, restarts and lost links overlap, both programs' variables keep their
\* types: a client that reads an answer has a connection, and an answer is one of the three it handles.
THEOREM PeeringTypesHold == PeeringSpec => []PeeringTypeOK
<1>1. PeeringInit => PeerTypes
  BY PeerTypesStart
<1>2. PeerTypes /\ [PeeringNext]_peerVars => PeerTypes'
  BY PeerTypesKept
<1>3. PeerTypes => PeeringTypeOK
  BY PeerTyped
<1>4. QED
  BY <1>1, <1>2, <1>3, PTL DEF PeeringSpec

\* queue_max holds for whatever the policies, the replay and the sentinels put into the queue of a stream, and a job's
\* events never run ahead of its stamp.
THEOREM StreamTypesHold == StreamSpec => []StreamTypeOK
<1>1. StreamInit => StreamInv /\ StreamBounds
  BY StreamStarts, BoundsStart
<1>2. StreamInv /\ StreamBounds /\ [StreamNext]_streamVars => (StreamInv /\ StreamBounds)'
  BY StreamKept, BoundsKept
<1>3. StreamInv /\ StreamBounds => StreamTypeOK
  BY StreamTyped
<1>4. QED
  BY <1>1, <1>2, <1>3, PTL DEF StreamSpec

\* A step is one of a single part, so a behaviour of the instance is one of the pairing alone, and of the stream alone.
LEMMA PartsAlone == DashboardSpec => PeeringSpec /\ StreamSpec
<1>1. DashboardInit => PeeringInit /\ StreamInit
  BY DEF DashboardInit
<1>2. [DashboardNext]_<<part, peerVars, monVars, streamVars>> => [PeeringNext]_peerVars /\ [StreamNext]_streamVars
  BY DEF DashboardNext, MonitorStep
<1>3. QED
  BY <1>1, <1>2, PTL DEF DashboardSpec, PeeringSpec, StreamSpec

LEMMA RestIsFresh == ASSUME MonitorRests PROVE MonitorInv
<1>1. Fresh \in Device
  BY DEF Fresh, Device, Source
<1>2. dev \in [Cfg -> Device]
  BY <1>1 DEF MonitorRests
<1>3. QED
  BY <1>2 DEF MonitorRests, MonitorInv, MonitorTypeOK, ClaimIsAnchored, Source, Device

\* The types of the link, the monitor and the streams hold in the instance that has all three, whichever of them a
\* behaviour is one of.
THEOREM DashboardTypesHold == DashboardSpec => []DashboardTypeOK
<1>1. DashboardInit => MonitorInv
  BY RestIsFresh, MonitorInitInv DEF DashboardInit
<1>2. MonitorInv /\ [DashboardNext]_<<part, peerVars, monVars, streamVars>> => MonitorInv'
  BY NextOwes, StutterOwes DEF DashboardNext, MonitorStep, Owed
<1>3. PeeringTypeOK /\ MonitorInv /\ StreamTypeOK => DashboardTypeOK
  BY DEF MonitorInv, DashboardTypeOK
<1>4. QED
  BY <1>1, <1>2, <1>3, PartsAlone, PeeringTypesHold, StreamTypesHold, PTL DEF DashboardSpec

==============================================================================
