--------------------------- MODULE CompileDispatch ---------------------------
(***************************************************************************)
(* What remote builds promise for each compile, without frames, links,     *)
(* wake-ups and settings: it waits in one place at a time; a server builds *)
(* one compile, and a compile is handed to a server a bounded number of    *)
(* times, each time from the pool; once it went to the local lane it stays *)
(* with this dashboard; a cancel that was accepted decides how it ends.    *)
(***************************************************************************)
EXTENDS Naturals

CONSTANTS Job, Server, NoServer, MaxLoss

VARIABLES
    stage,  \* status of each compile
    place,  \* "out", waiting in the "pool", at a "server", on the "lane" or its "bench"
    pin,    \* the server it is at
    tries,  \* how often it was handed to one
    stop    \* the running compiles whose cancel was accepted

vars == <<stage, place, pin, tries, stop>>

Over  == {"completed", "failed", "cancelled"}
Stage == {"none", "queued", "running"} \cup Over
Place == {"out", "pool", "server", "lane", "bench"}

Init ==
    /\ stage = [j \in Job |-> "none"] /\ place = [j \in Job |-> "out"]
    /\ pin = [j \in Job |-> NoServer] /\ tries = [j \in Job |-> 0] /\ stop = {}

\* Compile j leaves its server, if it has one, for place p.
Moves(j, st, p) ==
    /\ stage' = [stage EXCEPT ![j] = st] /\ place' = [place EXCEPT ![j] = p]
    /\ pin' = [pin EXCEPT ![j] = NoServer] /\ UNCHANGED tries

Submit(j) ==
    /\ stage[j] = "none" /\ \E p \in {"pool", "lane"} : Moves(j, "queued", p)
    /\ UNCHANGED stop

\* A queued compile is cancelled at once.
Withdraw(j) == stage[j] = "queued" /\ Moves(j, "cancelled", "out") /\ UNCHANGED stop

\* A running one is asked to stop: only where something holds it.
Ask(j) ==
    /\ place[j] \in {"server", "bench"} /\ j \notin stop /\ stop' = stop \cup {j}
    /\ UNCHANGED <<stage, place, pin, tries>>

Stays(j) == /\ stage'[j] = stage[j] /\ place'[j] = place[j]
            /\ pin'[j] = pin[j] /\ tries'[j] = tries[j]
Leaves(j) ==
    /\ place[j] = "pool"
    /\ \/ /\ stage'[j] = "running" /\ place'[j] = "server"
          /\ pin'[j] \in Server /\ tries'[j] = tries[j] + 1
       \/ /\ \/ stage'[j] = "queued" /\ place'[j] = "lane"
             \/ stage'[j] = "failed" /\ place'[j] = "out"
          /\ pin'[j] = pin[j] /\ tries'[j] = tries[j]
\* The matcher empties the pool as far as it can, each server for one compile.
Match ==
    /\ \A j \in Job : Stays(j) \/ Leaves(j)
    /\ \A j, k \in Job : j # k /\ pin'[j] # NoServer => pin'[j] # pin'[k]
    /\ UNCHANGED stop
    /\ stage' \in [Job -> Stage] /\ place' \in [Job -> Place]
    /\ pin' \in [Job -> Server \cup {NoServer}] /\ tries' \in [Job -> 0..MaxLoss + 1]

\* The server was lost; the compile waits for another one.
Bounce(j) ==
    /\ place[j] = "server" /\ j \notin stop /\ tries[j] <= MaxLoss
    /\ Moves(j, "queued", "pool") /\ UNCHANGED stop

\* The server could not build at all; the compile is built here.
FallBack(j) ==
    /\ place[j] = "server" /\ j \notin stop
    /\ Moves(j, "running", "lane") /\ UNCHANGED stop

Bench(j) ==
    /\ place[j] = "lane" /\ \A k \in Job : place[k] # "bench"
    /\ Moves(j, "running", "bench") /\ UNCHANGED stop

End(j, st) ==
    /\ place[j] \in {"server", "bench"} /\ (j \in stop => st = "cancelled")
    /\ Moves(j, st, "out") /\ stop' = stop \ {j}

Next ==
    \/ Match
    \/ \E j \in Job : Submit(j) \/ Withdraw(j) \/ Ask(j) \/ Bounce(j) \/ FallBack(j) \/ Bench(j)
    \/ \E j \in Job, st \in Over : End(j, st)

Spec == Init /\ [][Next]_vars
=============================================================================
