----------------------------- MODULE JobLifecycle -----------------------------
(***************************************************************************)
(* What the firmware job queue promises to those who submit jobs and read  *)
(* job events, without lanes, workers, saves or calls: a job is created    *)
(* queued, alone or with the job that has to come before it; it runs only  *)
(* when that one completed; it ends once and says so once; a restart of    *)
(* the dashboard leaves nothing running.                                   *)
(***************************************************************************)
EXTENDS Integers

CONSTANTS Job, NoJob

VARIABLES
    stage,   \* status of each job; "none" before it is created or when its record is lost
    dep,     \* the job each job waits for, or NoJob
    told     \* number of terminal events of each job since the process started

vars == <<stage, dep, told>>

Alive == {"queued", "running"}
Over  == {"completed", "failed", "cancelled"}
\* What the stage of a prerequisite says when the job may run: a record that a restart
\* did not bring back was that of a completed job (history is pruned).
Past  == {"completed", "none"}

Init ==
    /\ stage = [j \in Job |-> "none"]
    /\ dep = [j \in Job |-> NoJob]
    /\ told = [j \in Job |-> 0]

\* The jobs S of one submission, each alone or waiting for another of S.
Create(S) ==
    /\ S # {} /\ \A j \in S : stage[j] = "none"
    /\ stage' = [j \in Job |-> IF j \in S THEN "queued" ELSE stage[j]]
    /\ \E d \in [S -> S \cup {NoJob}] : dep' = [j \in Job |-> IF j \in S THEN d[j] ELSE dep[j]]
    /\ UNCHANGED told

Start(j) ==
    /\ stage[j] = "queued"
    /\ dep[j] # NoJob => stage[dep[j]] \in Past
    /\ stage' = [stage EXCEPT ![j] = "running"]
    /\ UNCHANGED <<dep, told>>

\* The jobs S end as r says, and the terminal events of T are fired.  A running job ends
\* with its event; the event of a cancelled queued job may follow (it is saved first).
End(S, T, r) ==
    /\ \A j \in S : stage[j] \in Alive
    /\ \A j \in S : stage[j] = "queued" => r[j] = "cancelled"
    /\ \A j \in S \ T : stage[j] = "queued"
    /\ stage' = [j \in Job |-> IF j \in S THEN r[j] ELSE stage[j]]
    /\ \A j \in T : stage'[j] \in Over /\ told[j] = 0
    /\ told' = [j \in Job |-> IF j \in T THEN 1 ELSE told[j]]
    /\ UNCHANGED dep

\* The process dies and starts again: what ran is queued again, what is older than the
\* last snapshot may come back as it was then, nothing was told yet.
Crash ==
    /\ stage' \in [Job -> {"none", "queued"} \cup Over]
    /\ told' = [j \in Job |-> 0]
    /\ UNCHANGED dep

Next ==
    \/ \E S \in SUBSET Job : Create(S)
    \/ \E j \in Job : Start(j)
    \/ \E S, T \in SUBSET Job : \E r \in [S -> Over] : End(S, T, r)
    \/ Crash

Spec == Init /\ [][Next]_vars
=============================================================================
