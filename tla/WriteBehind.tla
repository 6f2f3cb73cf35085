----------------------------- MODULE WriteBehind -----------------------------
(***************************************************************************)
(* What a store promises its consumer, without timer, tasks, lock and      *)
(* flushes: its file follows RAM, always to a newer value and never past   *)
(* it; an orderly end leaves it behind only by a write that failed; and    *)
(* the entries of the shared sidecar are given up only once the file holds *)
(* them.                                                                   *)
(***************************************************************************)
EXTENDS Naturals

VARIABLES
    life,  \* "off", "on", or "closed" by an orderly end
    ram,   \* the version in RAM, 0 while off
    file,  \* the version in the file, 0 while there is none
    lost,  \* the version of the last write that failed
    old    \* the sidecar still has the entries

vars == <<life, ram, file, lost, old>>

Init == life = "off" /\ ram = 0 /\ file = 0 /\ lost = 0 /\ old = TRUE

\* The file wins; without one the sidecar's entries are taken over.
Open ==
    /\ life = "off" /\ life' = "on"
    /\ ram' = IF file = 0 /\ old THEN 1 ELSE file
    /\ UNCHANGED <<file, lost, old>>

Change == life = "on" /\ ram' = ram + 1 /\ UNCHANGED <<life, file, lost, old>>

\* Any value since the one in the file may reach it, or fail to.
Newer == (file + 1)..ram
Persist == life = "on" /\ file' \in Newer /\ UNCHANGED <<life, ram, lost, old>>
Fail    == life = "on" /\ lost' \in Newer /\ UNCHANGED <<life, ram, file, old>>

GiveUp == life = "on" /\ old /\ file # 0 /\ old' = FALSE /\ UNCHANGED <<life, ram, file, lost>>

Close == life = "on" /\ ram \in {file, lost} /\ life' = "closed" /\ UNCHANGED <<ram, file, lost, old>>

\* A kill at any time, or the next start.
Restart == life # "off" /\ life' = "off" /\ ram' = 0 /\ lost' = 0 /\ UNCHANGED <<file, old>>

Next == Open \/ Change \/ Persist \/ Fail \/ GiveUp \/ Close \/ Restart

Spec == Init /\ [][Next]_vars
=============================================================================
